---- MODULE Spec2Model ----
(***************************************************************************)
(* midloop: the data-normalisation layer of js/script.js (Formatters,      *)
(* AdapterUtils, the three content adapters, validateMetadata,             *)
(* ModalRenderers and populateModalDetails).                               *)
(*                                                                         *)
(* JavaScript values are records tagged by `t` (the result of typeof, with *)
(* "null" and "array" told apart).  A string is a sequence of tokens: the  *)
(* characters of data strings, or a whole word of a literal.  The two      *)
(* tokens "ISO" and "DATE" stand for the renderings of the instant `n` as  *)
(* Date.prototype.toISOString() and as YYYY-MM-DD.  Numbers are integers   *)
(* or NaN.  Time is counted in hours since the epoch.                      *)
(***************************************************************************)
EXTENDS Integers, Sequences, FiniteSets, TLC

VARIABLES pc, env, raw, item, validation, details, html, call, ret, card,
          localStorage,
          build, clock, dataCache, container, currentDateFilter,
          unfilteredItemsArray, tasks,
          toggled, allItems, searchLoad,
          location, page, navigated, uncaught, scrollTimers, hashchange,
          searchTimeout, searchTimers, inputEvents, displayCalls, searchResults,
          currentMoviesArray,
          modal, sameArray, resultRows

\* the adapters, the detail modal and the card of one item
adapterVars == <<pc, env, raw, item, validation, details, html, call, ret, card>>

\* the bookmarks the browser keeps under bookmarkManager.STORAGE_KEY
\* and the ids toggled an odd number of times so far
storeVars == <<localStorage, toggled>>

\* the build of the script, Date.now(), the category cache, the grid, the
\* items the modal navigates, the date filter of the hash build, and the
\* timers and fetches in flight
loadVars == <<build, clock, dataCache, container, currentMoviesArray, currentDateFilter,
              unfilteredItemsArray, tasks>>

\* SearchModule.allItems and the load that fills it
searchVars == <<allItems, searchLoad>>

\* the page URL, what Router.executeRoute shows of the route, the path the
\* last step handed to Router.navigate, whether that step ended in an
\* uncaught error, the scrollToTop timers and a queued hashchange event
routerVars == <<location, page, navigated, uncaught, scrollTimers, hashchange>>

\* the search box: the id setTimeout returned last, the timers pending, the
\* input events and the displayResults calls so far, and the dropdown
inputVars == <<searchTimeout, searchTimers, inputEvents, displayCalls, searchResults>>

\* the detail modal, whether currentMoviesArray and unfilteredItemsArray name
\* the same array object, and the items of the rows of the search dropdown
viewVars == <<modal, sameArray, resultRows>>

vars == <<adapterVars, storeVars, loadVars, searchVars, routerVars, inputVars, viewVars>>

(***************************************************************************)
(* JavaScript values                                                       *)
(***************************************************************************)
Undef == [t |-> "undefined", n |-> 0, s |-> <<>>]
Null == [t |-> "null", n |-> 0, s |-> <<>>]
NaN == [t |-> "number", n |-> 0, s |-> <<"NaN">>]
Func == [t |-> "function", n |-> 0, s |-> <<>>]
Num(i) == [t |-> "number", n |-> i, s |-> <<>>]
Bool(b) == [t |-> "boolean", n |-> IF b THEN 1 ELSE 0, s |-> <<>>]
Str(cs) == [t |-> "string", n |-> 0, s |-> cs]
IsoStr(h) == [t |-> "string", n |-> h, s |-> <<"ISO">>]
DateStr(h) == [t |-> "string", n |-> h, s |-> <<"DATE">>]
Arr(xs) == [t |-> "array", items |-> xs]
Obj(has, nm) == [t |-> "object", hasName |-> has, name |-> nm]
Thrown == [t |-> "throw", n |-> 0, s |-> <<>>]

IsNaN(v) == v.t = "number" /\ v.s # <<>>
IsNumber(v) == v.t = "number" /\ v.s = <<>>
IsString(v) == v.t = "string"
\* typeof v === 'object'
TypeofObject(v) == v.t \in {"object", "array", "null"}

\* ToBoolean: the truthiness used by !x, x || y, filter(Boolean)
Truthy(v) ==
  CASE v.t \in {"undefined", "null", "throw"} -> FALSE
    [] v.t = "number" -> v.s = <<>> /\ v.n # 0
    [] v.t = "boolean" -> v.n = 1
    [] v.t = "string" -> v.s # <<>>
    [] OTHER -> TRUE

\* a || b
OrElse(a, b) == IF Truthy(a) THEN a ELSE b

RECURSIVE SeqFilterTruthy(_)
SeqFilterTruthy(xs) ==
  IF xs = <<>> THEN <<>>
  ELSE IF Truthy(Head(xs)) THEN <<Head(xs)>> \o SeqFilterTruthy(Tail(xs))
       ELSE SeqFilterTruthy(Tail(xs))

(***************************************************************************)
(* String to number conversions                                            *)
(***************************************************************************)
DigitChars == {"0", "1", "2", "3", "4", "5", "6", "7", "8", "9"}

DigitVal(c) ==
  CASE c = "0" -> 0 [] c = "1" -> 1 [] c = "2" -> 2 [] c = "3" -> 3
    [] c = "4" -> 4 [] c = "5" -> 5 [] c = "6" -> 6 [] c = "7" -> 7
    [] c = "8" -> 8 [] c = "9" -> 9

RECURSIVE TrimStart(_)
TrimStart(cs) ==
  IF cs # <<>> /\ Head(cs) = " " THEN TrimStart(Tail(cs)) ELSE cs

RECURSIVE TrimEnd(_)
TrimEnd(cs) ==
  IF cs # <<>> /\ cs[Len(cs)] = " " THEN TrimEnd(SubSeq(cs, 1, Len(cs) - 1))
  ELSE cs

\* String.prototype.trim
Trim(cs) == TrimEnd(TrimStart(cs))

RECURSIVE DigitPrefixLen(_)
DigitPrefixLen(cs) ==
  IF cs # <<>> /\ Head(cs) \in DigitChars THEN 1 + DigitPrefixLen(Tail(cs))
  ELSE 0

RECURSIVE DigitsValue(_, _)
DigitsValue(cs, acc) ==
  IF cs = <<>> THEN acc
  ELSE DigitsValue(Tail(cs), 10 * acc + DigitVal(Head(cs)))

\* the sign of a numeric literal and what follows it
SignOf(cs) == IF cs # <<>> /\ Head(cs) = "-" THEN -1 ELSE 1
Unsigned(cs) == IF cs # <<>> /\ Head(cs) \in {"-", "+"} THEN Tail(cs) ELSE cs

\* Number(string): the whole trimmed string must be a numeric literal; '' is 0
StringToNumber(cs) ==
  LET tr == Trim(cs)
      body == Unsigned(tr)
  IN IF tr = <<>> THEN Num(0)
     ELSE IF body # <<>> /\ DigitPrefixLen(body) = Len(body)
          THEN Num(SignOf(tr) * DigitsValue(body, 0))
          ELSE NaN

\* ToNumber, as applied by the global isNaN()
ToNumber(v) ==
  CASE v.t = "number" -> v
    [] v.t = "undefined" -> NaN
    [] v.t = "null" -> Num(0)
    [] v.t = "boolean" -> Num(v.n)
    [] v.t = "string" -> StringToNumber(v.s)
    [] v.t = "object" -> NaN

\* the global isNaN(v)
GlobalIsNaN(v) == IsNaN(ToNumber(v))

\* parseFloat(string): the longest numeric prefix after leading blanks
ParseFloatChars(cs) ==
  LET tr == TrimStart(cs)
      body == Unsigned(tr)
      k == DigitPrefixLen(body)
  IN IF k = 0 THEN NaN
     ELSE Num(SignOf(tr) * DigitsValue(SubSeq(body, 1, k), 0))

\* parseFloat(v): v is converted to a string first
ParseFloat(v) ==
  CASE v.t = "number" -> v
    [] v.t = "string" -> ParseFloatChars(v.s)
    [] v.t \in {"undefined", "null", "boolean", "object"} -> NaN

(***************************************************************************)
(* The clock and the local time zone of the browser.  An environment is a  *)
(* record [now, base, shift, transDay]: the current instant, the zone's    *)
(* offset from UTC, and a daylight-saving transition of `shift` hours      *)
(* (0: none) taking place when the wall clock reads 02:00 on transDay.     *)
(***************************************************************************)
HoursPerDay == 24
SecondsPerHour == 3600
MsPerHour == 3600000
TransitionWallHour == 2

TransInstant(e) == e.transDay * HoursPerDay + TransitionWallHour - e.base

\* the zone's offset from UTC at instant h
Offset(e, h) ==
  e.base + (IF e.shift # 0 /\ h >= TransInstant(e) THEN e.shift ELSE 0)

\* what the wall clock reads at instant h
Wall(e, h) == h + Offset(e, h)

\* the local calendar day of instant h
LocalDay(e, h) == Wall(e, h) \div HoursPerDay

\* Date.prototype.setHours(0, 0, 0, 0): the instant of local midnight of h's day
SetHoursMidnight(e, h) ==
  CHOOSE u \in (h - HoursPerDay - 1)..h : Wall(e, u) = LocalDay(e, h) * HoursPerDay

\* a Date object: a valid instant or Invalid Date
ValidDate(h) == [valid |-> TRUE, h |-> h]
InvalidDate == [valid |-> FALSE, h |-> 0]

\* new Date(v)
NewDate(v) ==
  CASE v.t = "number" /\ v.s = <<>> -> ValidDate(v.n \div MsPerHour)
    [] v.t = "string" /\ v.s \in {<<"ISO">>, <<"DATE">>} -> ValidDate(v.n)
    [] v.t = "null" -> ValidDate(0)
    [] v.t = "boolean" -> ValidDate(0)
    [] OTHER -> InvalidDate

\* new Date(seconds * 1000)
NewDateOfSeconds(v) ==
  IF v.s = <<>> THEN ValidDate(v.n \div SecondsPerHour) ELSE InvalidDate

\* Math.ceil(a / b) for b > 0
CeilDiv(a, b) == -((-a) \div b)

(***************************************************************************)
(* Sanitizers                                                              *)
(***************************************************************************)
\* the serialisation of one character of a text node
EscapeChar(c) ==
  CASE c = "<" -> "&lt;"
    [] c = ">" -> "&gt;"
    [] c = "&" -> "&amp;"
    [] OTHER -> c

\* sanitizeHTML(str)
sanitizeHTML(v) ==
  IF v.t # "string" THEN Str(<<>>)
  ELSE [t |-> "string", n |-> v.n, s |-> [i \in 1..Len(v.s) |-> EscapeChar(v.s[i])]]

\* String.prototype.toLowerCase, on the tokens of URL schemes
ToLowerToken(c) ==
  CASE c = "JavaScript:" -> "javascript:"
    [] c = "DATA:" -> "data:"
    [] OTHER -> c

\* s.startsWith(prefix) for a one-token prefix
StartsWith(cs, prefix) == cs # <<>> /\ Head(cs) = prefix

\* sanitizeURL(url)
sanitizeURL(v) ==
  IF v.t # "string" THEN Str(<<>>)
  ELSE LET trimmed == Trim(v.s)
           lower == [i \in 1..Len(trimmed) |-> ToLowerToken(trimmed[i])]
       IN IF StartsWith(lower, "javascript:") \/ StartsWith(lower, "data:")
          THEN Str(<<>>)
          ELSE [t |-> "string", n |-> v.n, s |-> trimmed]

\* new URL(url) succeeds: after stripping blanks the string opens with a scheme
SchemeTokens == {"https://", "http://", "javascript:", "JavaScript:", "data:", "DATA:"}
UrlParses(cs) == Trim(cs) # <<>> /\ Head(Trim(cs)) \in SchemeTokens

(***************************************************************************)
(* AdapterUtils                                                            *)
(***************************************************************************)
TMDB_IMAGE_BASE == "https://image.tmdb.org/t/p/w500"
PlaceholderPoster == "shared-data/placeholder_poster.jpg"

\* the options of normalizePosterURL after destructuring with its defaults
DefaultPosterOptions ==
  [baseURL |-> TMDB_IMAGE_BASE, placeholder |-> PlaceholderPoster, isFullURL |-> FALSE]

\* AdapterUtils.normalizePosterURL(posterPath, options)
normalizePosterURL(posterPath, options) ==
  IF ~Truthy(posterPath) \/ posterPath = Str(<<"placeholder_poster.jpg">>)
  THEN Str(<<options.placeholder>>)
  ELSE IF options.isFullURL THEN posterPath
  ELSE IF posterPath.t # "string" THEN Thrown   \* posterPath.startsWith is not a function
  ELSE IF StartsWith(posterPath.s, "http://") \/ StartsWith(posterPath.s, "https://")
       THEN posterPath
       ELSE Str(<<options.baseURL>> \o posterPath.s)

\* AdapterUtils.normalizeStoreURL(url, platform)
normalizeStoreURL(url, platform) ==
  IF ~Truthy(url) \/ url.t # "string" THEN Null
  ELSE IF UrlParses(url.s) THEN url ELSE Null

\* the properties every object inherits from Object.prototype
ObjectPrototypeKeys ==
  {"constructor", "toString", "valueOf", "hasOwnProperty", "isPrototypeOf",
   "propertyIsEnumerable", "toLocaleString", "__proto__"}

movieGenreMap ==
  [t |-> "object",
   map |-> (28 :> "Action" @@ 12 :> "Adventure" @@ 16 :> "Animation" @@ 35 :> "Comedy"
            @@ 80 :> "Crime" @@ 99 :> "Documentary" @@ 18 :> "Drama" @@ 10751 :> "Family"
            @@ 14 :> "Fantasy" @@ 36 :> "History" @@ 27 :> "Horror" @@ 10402 :> "Music"
            @@ 9648 :> "Mystery" @@ 10749 :> "Romance" @@ 878 :> "Sci-Fi"
            @@ 10770 :> "TV Movie" @@ 53 :> "Thriller" @@ 10752 :> "War"
            @@ 37 :> "Western")]

tvGenreMap ==
  [t |-> "object",
   map |-> (10759 :> "Action" @@ 16 :> "Animation" @@ 35 :> "Comedy" @@ 80 :> "Crime"
            @@ 99 :> "Documentary" @@ 18 :> "Drama" @@ 10751 :> "Family"
            @@ 10762 :> "Kids" @@ 9648 :> "Mystery" @@ 10763 :> "News"
            @@ 10764 :> "Reality" @@ 10765 :> "Sci-Fi" @@ 10766 :> "Soap"
            @@ 10767 :> "Talk" @@ 10768 :> "War" @@ 37 :> "Western")]

\* genreMap[id]: the id is converted to a property key
GenreLookup(genreMap, id) ==
  LET numeric(k) == IF k \in DOMAIN genreMap.map THEN Str(<<genreMap.map[k]>>) ELSE Undef
  IN CASE id.t = "number" /\ id.s = <<>> -> numeric(id.n)
       [] id.t = "string" /\ id.s # <<>> /\ DigitPrefixLen(id.s) = Len(id.s)
            /\ (Len(id.s) = 1 \/ Head(id.s) # "0") -> numeric(DigitsValue(id.s, 0))
       [] id.t = "string" /\ Len(id.s) = 1 /\ Head(id.s) \in ObjectPrototypeKeys -> Func
       [] OTHER -> Undef

\* genre.name
NameProperty(v) ==
  CASE v.t \in {"null", "undefined"} -> Thrown   \* cannot read properties of null
    [] v.t = "object" -> IF v.hasName THEN v.name ELSE Undef
    [] OTHER -> Undef

\* 'name' in v, for a v that passed typeof v === 'object' && v !== null
HasNameProperty(v) == v.t = "object" /\ v.hasName

MapSeq(xs, F(_)) == [i \in 1..Len(xs) |-> F(xs[i])]

AnyThrown(xs) == \E i \in 1..Len(xs) : xs[i] = Thrown

\* AdapterUtils.normalizeGenres(genresInput, genreMap)
normalizeGenres(genresInput, genreMap) ==
  IF ~Truthy(genresInput) \/ genresInput.t # "array" THEN Arr(<<>>)
  ELSE IF Len(genresInput.items) = 0 THEN Arr(<<>>)
  ELSE LET firstItem == genresInput.items[1]
           lookup(id) == GenreLookup(genreMap, id)
           names == MapSeq(genresInput.items, NameProperty)
       IN IF firstItem.t = "number" /\ Truthy(genreMap)
          THEN Arr(SeqFilterTruthy(MapSeq(genresInput.items, lookup)))
          ELSE IF firstItem.t = "string"
          THEN Arr(SeqFilterTruthy(genresInput.items))
          ELSE IF TypeofObject(firstItem) /\ firstItem # Null /\ HasNameProperty(firstItem)
          THEN IF AnyThrown(names) THEN Thrown ELSE Arr(SeqFilterTruthy(names))
          ELSE Arr(<<>>)

\* AdapterUtils.normalizeReleaseDate(dateInput)
normalizeReleaseDate(dateInput) ==
  IF ~Truthy(dateInput) THEN Null
  ELSE LET dateObj == IF dateInput.t = "number" THEN NewDateOfSeconds(dateInput)
                      ELSE NewDate(dateInput)
       IN IF dateInput.t \notin {"number", "string"} THEN Null
          ELSE IF ~dateObj.valid THEN Null
          ELSE IsoStr(dateObj.h)

\* getTVShowDisplayDate with `firstAir <= today`: a show first aired today
\* would already count as aired
getTVShowDisplayDate_AiredToday(e, firstAirDate, nextEpisodeDate) ==
  IF ~Truthy(firstAirDate) THEN OrElse(nextEpisodeDate, Null)
  ELSE LET firstAir == NewDate(firstAirDate)
           today == SetHoursMidnight(e, e.now)
           aired == firstAir.valid /\ SetHoursMidnight(e, firstAir.h) <= today
       IN IF aired /\ Truthy(nextEpisodeDate) THEN nextEpisodeDate
          ELSE firstAirDate

\* AdapterUtils.getTVShowDisplayDate(firstAirDate, nextEpisodeDate) at clock e
getTVShowDisplayDate(e, firstAirDate, nextEpisodeDate) ==
  IF ~Truthy(firstAirDate) THEN OrElse(nextEpisodeDate, Null)
  ELSE LET firstAir == NewDate(firstAirDate)
           today == SetHoursMidnight(e, e.now)
           aired == firstAir.valid /\ SetHoursMidnight(e, firstAir.h) < today
       IN IF aired /\ Truthy(nextEpisodeDate) THEN nextEpisodeDate
          ELSE firstAirDate

\* AdapterUtils.normalizeRating(rating, scale)
normalizeRating(rating, scale) ==
  IF rating.t \in {"null", "undefined"} \/ GlobalIsNaN(rating) THEN Null
  ELSE LET numRating == ParseFloat(rating)
       IN IF IsNumber(numRating) /\ (numRating.n < 0 \/ numRating.n > scale)
          THEN Null
          ELSE numRating

RECURSIVE SeqFilterStrings(_)
SeqFilterStrings(xs) ==
  IF xs = <<>> THEN <<>>
  ELSE IF Truthy(Head(xs)) /\ Head(xs).t = "string"
       THEN <<Head(xs)>> \o SeqFilterStrings(Tail(xs))
       ELSE SeqFilterStrings(Tail(xs))

\* the callback of normalizeArray's map: extractProperty is 'name'
ExtractName(v) ==
  IF v.t = "string" THEN v
  ELSE IF TypeofObject(v) /\ v # Null /\ HasNameProperty(v) THEN v.name
  ELSE Null

\* AdapterUtils.normalizeArray(input, extractProperty); extractProperty is
\* Null (not given) or the string 'name'
normalizeArray(input, extractProperty) ==
  IF ~Truthy(input) \/ input.t # "array" THEN Arr(<<>>)
  ELSE IF Len(input.items) = 0 THEN Arr(<<>>)
  ELSE IF ~Truthy(extractProperty) THEN Arr(SeqFilterStrings(input.items))
  ELSE Arr(SeqFilterTruthy(MapSeq(input.items, ExtractName)))

\* AdapterUtils.getCountdownStatus(releaseDate) at clock e
getCountdownStatus(e, releaseDate) ==
  IF ~Truthy(releaseDate) THEN [daysUntil |-> Null, isCountdown |-> FALSE]
  ELSE LET releaseObj == NewDate(releaseDate)
           today == SetHoursMidnight(e, e.now)
           diffTime == SetHoursMidnight(e, releaseObj.h) - today
           daysUntil == CeilDiv(diffTime, HoursPerDay)
       IN IF ~releaseObj.valid THEN [daysUntil |-> NaN, isCountdown |-> FALSE]
          ELSE [daysUntil |-> Num(daysUntil),
                isCountdown |-> daysUntil >= 1 /\ daysUntil <= 7]

\* AdapterUtils.extractCommonFields(rawData, config)
extractCommonFields(rawData, config) ==
  [id |-> rawData[config.idField],
   title |-> OrElse(rawData[config.titleField], Str(<<"Untitled">>)),
   description |-> OrElse(rawData[config.descriptionField],
                          Str(<<config.defaultDescription>>)),
   poster |-> normalizePosterURL(rawData[config.posterField], config.posterOptions)]

(***************************************************************************)
(* MetadataSchemas and validateMetadata.  A metadata object is             *)
(* [t |-> "object", props |-> r] where DOMAIN r is the set of its own keys. *)
(***************************************************************************)
MetaObject(r) == [t |-> "object", props |-> r]

MetadataSchemas_WithoutCreators ==
  [movie |->
     [t |-> "object", type |-> "movie", required |-> <<"type">>,
      optional |-> <<"runtime", "imdbId", "budget", "revenue", "productionCompanies",
                     "originalTitle", "originalLanguage", "theatricalReleaseDate">>],
   game |->
     [t |-> "object", type |-> "game", required |-> <<"type">>,
      optional |-> <<"platforms", "developers", "publishers", "gameModes",
                     "steamUrl", "epicUrl">>]]
  @@ ("tv-show" :>
     [t |-> "object", type |-> "tv-show", required |-> <<"type">>,
      optional |-> <<"seasons", "episodes", "networks", "status",
                     "nextEpisodeDate", "imdbId">>])

MetadataSchemas ==
  [movie |->
     [t |-> "object", type |-> "movie", required |-> <<"type">>,
      optional |-> <<"runtime", "imdbId", "budget", "revenue", "productionCompanies",
                     "originalTitle", "originalLanguage", "theatricalReleaseDate">>],
   game |->
     [t |-> "object", type |-> "game", required |-> <<"type">>,
      optional |-> <<"platforms", "developers", "publishers", "gameModes",
                     "steamUrl", "epicUrl">>]]
  @@ ("tv-show" :>
     [t |-> "object", type |-> "tv-show", required |-> <<"type">>,
      optional |-> <<"seasons", "episodes", "networks", "creators", "status",
                     "nextEpisodeDate", "imdbId">>])

\* MetadataSchemas[type]: an own property, else whatever Object.prototype holds
SchemaLookup(type) ==
  IF type \in DOMAIN MetadataSchemas THEN MetadataSchemas[type]
  ELSE IF type \in ObjectPrototypeKeys THEN Func
  ELSE Undef

Range(xs) == {xs[i] : i \in 1..Len(xs)}

\* Object.keys(metadata)
OwnKeys(metadata) ==
  IF metadata.t = "array" THEN {ToString(i - 1) : i \in 1..Len(metadata.items)}
  ELSE DOMAIN metadata.props

\* field in metadata
HasProperty(field, metadata) ==
  field \in OwnKeys(metadata) \/ field \in ObjectPrototypeKeys

RECURSIVE MissingRequired(_, _)
MissingRequired(required, metadata) ==
  IF required = <<>> THEN <<>>
  ELSE (IF HasProperty(Head(required), metadata) THEN <<>>
        ELSE <<"Missing required field: " \o Head(required)>>)
       \o MissingRequired(Tail(required), metadata)

ValidationResult(ok, errs, warns) ==
  [threw |-> FALSE, isValid |-> ok, errors |-> errs, warnings |-> warns]
ValidationThrew ==
  [threw |-> TRUE, isValid |-> FALSE, errors |-> <<>>, warnings |-> {}]

\* validateMetadata(metadata, type); the warnings are kept as a set
validateMetadata(metadata, type) ==
  LET schema == SchemaLookup(type)
  IN IF ~Truthy(schema)
     THEN ValidationResult(FALSE, <<"Unknown type: " \o type>>, {})
     ELSE IF ~Truthy(metadata) \/ ~TypeofObject(metadata)
     THEN ValidationResult(FALSE, <<"Metadata must be an object">>, {})
     ELSE IF schema = Func
     THEN ValidationThrew   \* schema.required is undefined: forEach of undefined
     ELSE LET errors == MissingRequired(schema.required, metadata)
              allAllowedFields == Range(schema.required) \cup Range(schema.optional)
          IN ValidationResult(errors = <<>>, errors,
                              {f \in OwnKeys(metadata) : f \notin allAllowedFields})

\* AdapterUtils.validateAndLog(metadata, type, title): the result is logged
validateAndLog(metadata, type, title) == validateMetadata(metadata, type)

(***************************************************************************)
(* Content adapters.  A raw record is a record of its fields; a field the  *)
(* source object lacks reads as undefined.                                 *)
(***************************************************************************)
\* an adapter's result: the item, or the exception a helper raised
ItemOrThrown(it) ==
  IF it.poster = Thrown \/ it.genres = Thrown THEN Thrown ELSE it

\* normalizeMovie(rawMovie)
normalizeMovie(rawMovie) ==
  LET common == extractCommonFields(rawMovie,
        [idField |-> "id", titleField |-> "title", descriptionField |-> "overview",
         posterField |-> "poster_path",
         posterOptions |-> [DefaultPosterOptions EXCEPT !.baseURL = TMDB_IMAGE_BASE],
         defaultDescription |-> "No overview available."])
  IN ItemOrThrown(
       [id |-> common.id, title |-> common.title,
        description |-> common.description, poster |-> common.poster,
        releaseDate |-> normalizeReleaseDate(rawMovie.digital_release_date),
        rating |-> normalizeRating(rawMovie.vote_average, 10),
        ratingMax |-> 10,
        genres |-> normalizeGenres(rawMovie.genre_ids, movieGenreMap),
        metadata |-> MetaObject(
          [type |-> Str(<<"movie">>),
           imdbId |-> rawMovie.imdb_id,
           runtime |-> rawMovie.runtime,
           originalTitle |-> rawMovie.original_title,
           originalLanguage |-> rawMovie.original_language,
           productionCompanies |-> rawMovie.production_companies,
           budget |-> rawMovie.budget,
           revenue |-> rawMovie.revenue,
           theatricalReleaseDate |-> normalizeReleaseDate(rawMovie.release_date)])])

\* normalizeTVShow(rawShow) at clock e
normalizeTVShow(e, rawShow) ==
  LET common == extractCommonFields(rawShow,
        [idField |-> "id", titleField |-> "title", descriptionField |-> "overview",
         posterField |-> "poster_path",
         posterOptions |-> [DefaultPosterOptions EXCEPT !.baseURL = TMDB_IMAGE_BASE],
         defaultDescription |-> "No overview available."])
      displayDate == getTVShowDisplayDate(e,
        OrElse(rawShow.first_air_date, rawShow.digital_release_date),
        rawShow.next_episode_date)
  IN ItemOrThrown(
       [id |-> common.id,
        title |-> OrElse(rawShow.title, rawShow.name),
        description |-> common.description, poster |-> common.poster,
        releaseDate |-> displayDate,
        rating |-> normalizeRating(rawShow.vote_average, 10),
        ratingMax |-> 10,
        genres |-> normalizeGenres(rawShow.genre_ids, tvGenreMap),
        metadata |-> MetaObject(
          [type |-> Str(<<"tv-show">>),
           imdbId |-> rawShow.imdb_id,
           seasons |-> rawShow.number_of_seasons,
           episodes |-> rawShow.number_of_episodes,
           networks |-> normalizeArray(rawShow.networks, Null),
           status |-> rawShow.release_status,
           nextEpisodeDate |-> normalizeReleaseDate(rawShow.next_episode_date),
           creators |-> normalizeArray(rawShow.created_by, Null)])])

\* normalizeGame(rawGame)
normalizeGame(rawGame) ==
  LET common == extractCommonFields(rawGame,
        [idField |-> "slug", titleField |-> "name", descriptionField |-> "summary",
         posterField |-> "poster_path",
         posterOptions |-> [DefaultPosterOptions EXCEPT !.isFullURL = TRUE],
         defaultDescription |-> "No summary available."])
  IN ItemOrThrown(
       [id |-> rawGame.slug, title |-> common.title,
        description |-> common.description, poster |-> common.poster,
        releaseDate |-> normalizeReleaseDate(rawGame.first_release_date),
        rating |-> normalizeRating(rawGame.total_rating, 100),
        ratingMax |-> 100,
        genres |-> normalizeGenres(rawGame.genres, Null),
        metadata |-> MetaObject(
          [type |-> Str(<<"game">>),
           steamUrl |-> normalizeStoreURL(rawGame.steam_url, "steam"),
           epicUrl |-> normalizeStoreURL(rawGame.epic_url, "epic"),
           platforms |-> normalizeArray(rawGame.platforms, Null),
           developers |-> normalizeArray(rawGame.developers, Null),
           publishers |-> normalizeArray(rawGame.publishers, Null),
           gameModes |-> normalizeArray(rawGame.game_modes, Null)])])

(***************************************************************************)
(* Formatters used by the modal renderers                                  *)
(***************************************************************************)
\* String(v)
JsToString(v) ==
  CASE v.t = "string" -> v.s
    [] v.t = "number" -> IF v.s = <<>> THEN <<ToString(v.n)>> ELSE <<"NaN">>
    [] v.t = "boolean" -> IF v.n = 1 THEN <<"true">> ELSE <<"false">>
    [] v.t = "null" -> <<"null">>
    [] v.t = "undefined" -> <<"undefined">>
    [] v.t = "object" -> <<"[object Object]">>
    [] v.t = "function" -> <<"function Object() { [native code] }">>

\* parseInt(v): the leading integer of String(v)
ParseInt(v) ==
  CASE v.t = "number" -> v
    [] v.t = "string" -> ParseFloatChars(v.s)
    [] v.t \in {"undefined", "null", "boolean", "object"} -> NaN

\* a % b of JavaScript: the sign of the dividend
JsRem(a, b) == IF a >= 0 THEN a % b ELSE -((-a) % b)

\* v > 0
GreaterThanZero(v) == IsNumber(ToNumber(v)) /\ ToNumber(v).n > 0

\* Formatters.runtimeDisplay(minutes)
runtimeDisplay(minutes) ==
  IF ~Truthy(minutes) \/ GlobalIsNaN(minutes) THEN Str(<<"N/A">>)
  ELSE LET numMinutes == ParseInt(minutes)
           hours == numMinutes.n \div 60
           mins == JsRem(numMinutes.n, 60)
       IN IF IsNaN(numMinutes) THEN Str(<<"NaN", "m">>)
          ELSE IF hours > 0 THEN Str(<<ToString(hours), "h ", ToString(mins), "m">>)
          ELSE Str(<<ToString(mins), "m">>)

\* (num / unit).toFixed(1) for num >= 0, as its integer part and first decimal
ToFixed1(num, unit) ==
  LET tenths == (10 * num + unit \div 2) \div unit
  IN <<ToString(tenths \div 10), ".", ToString(tenths % 10)>>

\* (num / unit).toFixed(0) for num >= 0
ToFixed0(num, unit) == <<ToString((num + unit \div 2) \div unit)>>

\* Formatters.currencyDisplay(amount)
currencyDisplay(amount) ==
  IF ~Truthy(amount) \/ GlobalIsNaN(amount) THEN Str(<<"N/A">>)
  ELSE LET num == ParseInt(amount)
       IN IF IsNaN(num) THEN Str(<<"$", "NaN">>)
          ELSE IF num.n >= 1000000 THEN Str(<<"$">> \o ToFixed1(num.n, 1000000) \o <<"M">>)
          ELSE IF num.n >= 1000 THEN Str(<<"$">> \o ToFixed0(num.n, 1000) \o <<"K">>)
          ELSE Str(<<"$", ToString(num.n)>>)

RECURSIVE Join(_, _)
Join(strs, separator) ==
  IF strs = <<>> THEN <<>>
  ELSE IF Len(strs) = 1 THEN Head(strs)
  ELSE Head(strs) \o <<separator>> \o Join(Tail(strs), separator)

\* Formatters.arrayDisplay(arr, separator)
arrayDisplay(arr, separator) ==
  IF arr.t # "array" \/ Len(arr.items) = 0 THEN Str(<<"N/A">>)
  ELSE LET kept == SeqFilterTruthy(arr.items)
           texts == [i \in 1..Len(kept) |-> sanitizeHTML(Str(JsToString(kept[i]))).s]
       IN Str(Join(texts, separator))

\* Formatters.dateDisplay(dateString, format) at clock e: the locale rendering
\* of a date is the token of its format with the local calendar day
dateDisplay(e, dateString, format) ==
  IF ~Truthy(dateString) THEN Str(<<"Coming soon">>)
  ELSE LET dateObj == NewDate(dateString)
       IN IF ~dateObj.valid THEN Str(<<"Coming soon">>)
          ELSE [t |-> "string", n |-> LocalDay(e, dateObj.h), s |-> <<"LOCALE:" \o format>>]

(***************************************************************************)
(* ModalRenderers.  A detail row's `tpl` records how a template literal    *)
(* assembled its value: literal text, and interpolated expressions with    *)
(* the sanitizer the template applies to them ("raw" when none).           *)
(***************************************************************************)
Lit(tok) == [via |-> "literal", text |-> <<tok>>]
Interpolate(v) == [via |-> "raw", text |-> JsToString(v)]
InterpolateURL(v) == [via |-> "sanitizeURL", text |-> sanitizeURL(v).s]

RECURSIVE Flatten(_)
Flatten(segs) ==
  IF segs = <<>> THEN <<>> ELSE Head(segs).text \o Flatten(Tail(segs))

Row(label, value) == [label |-> label, value |-> value, isHtml |-> FALSE, tpl |-> <<>>]
HtmlRow(label, tpl) ==
  [label |-> label, value |-> Str(Flatten(tpl)), isHtml |-> TRUE, tpl |-> tpl]

RowIf(cond, row) == IF cond THEN <<row>> ELSE <<>>

\* what render(item) does: it returns its rows, or throws
Rendered(rows) == [threw |-> FALSE, rows |-> rows]
RenderThrew == [threw |-> TRUE, rows |-> <<>>]

LetterChars ==
  {"a", "b", "c", "d", "e", "f", "g", "h", "i", "j", "k", "l", "m",
   "n", "o", "p", "q", "r", "s", "t", "u", "v", "w", "x", "y", "z"}

\* a language subtag: two or three letters, or five to eight
WellFormedLanguage(cs) ==
  /\ Len(cs) \in {2, 3, 5, 6, 7, 8}
  /\ \A i \in 1..Len(cs) : cs[i] \in LetterChars

\* new Intl.DisplayNames(['en'], { type: 'language' }).of(code)
LanguageDisplayName(code) ==
  LET cs == JsToString(code)
  IN IF ~WellFormedLanguage(cs) THEN Thrown   \* RangeError: invalid language tag
     ELSE IF cs = <<"f", "r">> THEN Str(<<"French">>)
     ELSE IF cs = <<"j", "a">> THEN Str(<<"Japanese">>)
     ELSE Str(cs)

ImdbLink(imdbId) ==
  HtmlRow("IMDb",
    <<Lit("< a href = \"https://www.imdb.com/title/"), Interpolate(imdbId),
      Lit("/\" target = \"_blank\" rel = \"noopener\" > View on IMDb</a > ")>>)

StoreLink(label, url, text) ==
  HtmlRow(label,
    <<Lit("< a href = \""), InterpolateURL(url),
      Lit("\" target = \"_blank\" rel = \"noopener\" > " \o text \o "</a > ")>>)

\* ModalRenderers.movie.render(item)
RenderMovie(it) ==
  LET meta == it.metadata.props
      showLanguage == Truthy(meta.originalLanguage)
                        /\ meta.originalLanguage # Str(<<"e", "n">>)
      language == LanguageDisplayName(meta.originalLanguage)
  IN IF showLanguage /\ language = Thrown THEN RenderThrew
     ELSE Rendered(
          RowIf(Truthy(meta.runtime), Row("Runtime", runtimeDisplay(meta.runtime)))
       \o RowIf(Truthy(meta.budget) /\ GreaterThanZero(meta.budget),
                Row("Budget", currencyDisplay(meta.budget)))
       \o RowIf(Truthy(meta.revenue) /\ GreaterThanZero(meta.revenue),
                Row("Revenue", currencyDisplay(meta.revenue)))
       \o RowIf(showLanguage,
                Row("Original Language", OrElse(language, meta.originalLanguage)))
       \o RowIf(Truthy(meta.imdbId), ImdbLink(meta.imdbId)))

\* v.length > 0
NonEmptyLength(v) ==
  CASE v.t = "array" -> Len(v.items) > 0
    [] v.t = "string" -> Len(v.s) > 0
    [] OTHER -> FALSE

\* the TV renderer with the Seasons value pushed without String()
RenderTVShow_NoString(e, it) ==
  LET meta == it.metadata.props
  IN Rendered(
        RowIf(Truthy(meta.seasons), Row("Seasons", meta.seasons))
     \o RowIf(Truthy(meta.episodes), Row("Episodes", Str(JsToString(meta.episodes))))
     \o RowIf(Truthy(meta.networks) /\ NonEmptyLength(meta.networks),
              Row("Networks", arrayDisplay(meta.networks, ", ")))
     \o RowIf(Truthy(meta.status), Row("Status", meta.status))
     \o RowIf(Truthy(meta.nextEpisodeDate),
              Row("Next Episode", dateDisplay(e, meta.nextEpisodeDate, "long")))
     \o RowIf(Truthy(meta.creators) /\ NonEmptyLength(meta.creators),
              Row("Created By", arrayDisplay(meta.creators, ", ")))
     \o RowIf(Truthy(meta.imdbId), ImdbLink(meta.imdbId)))

\* ModalRenderers['tv-show'].render(item) at clock e
RenderTVShow(e, it) ==
  LET meta == it.metadata.props
  IN Rendered(
        RowIf(Truthy(meta.seasons), Row("Seasons", Str(JsToString(meta.seasons))))
     \o RowIf(Truthy(meta.episodes), Row("Episodes", Str(JsToString(meta.episodes))))
     \o RowIf(Truthy(meta.networks) /\ NonEmptyLength(meta.networks),
              Row("Networks", arrayDisplay(meta.networks, ", ")))
     \o RowIf(Truthy(meta.status), Row("Status", meta.status))
     \o RowIf(Truthy(meta.nextEpisodeDate),
              Row("Next Episode", dateDisplay(e, meta.nextEpisodeDate, "long")))
     \o RowIf(Truthy(meta.creators) /\ NonEmptyLength(meta.creators),
              Row("Created By", arrayDisplay(meta.creators, ", ")))
     \o RowIf(Truthy(meta.imdbId), ImdbLink(meta.imdbId)))

\* p => (typeof p === 'string' ? p : p.name)
NameOrSelf(p) == IF p.t = "string" THEN p ELSE NameProperty(p)

\* list.map(p => ...).filter(Boolean) of the game renderer
EntryNames(list) == SeqFilterTruthy(MapSeq(list.items, NameOrSelf))

\* one array section of the game renderer
NamesRow(label, list) ==
  IF Truthy(list) /\ NonEmptyLength(list) /\ EntryNames(list) # <<>>
  THEN <<Row(label, arrayDisplay(Arr(EntryNames(list)), ", "))>>
  ELSE <<>>

NamesThrow(list) ==
  Truthy(list) /\ NonEmptyLength(list) /\ AnyThrown(MapSeq(list.items, NameOrSelf))

\* ModalRenderers.game.render(item)
RenderGame(it) ==
  LET meta == it.metadata.props
  IN IF \E l \in {meta.platforms, meta.developers, meta.publishers, meta.gameModes} :
          NamesThrow(l)
     THEN RenderThrew
     ELSE Rendered(
          NamesRow("Platforms", meta.platforms)
       \o NamesRow("Developers", meta.developers)
       \o NamesRow("Publishers", meta.publishers)
       \o NamesRow("Game Modes", meta.gameModes)
       \o RowIf(Truthy(meta.steamUrl), StoreLink("Steam", meta.steamUrl, "View on Steam"))
       \o RowIf(Truthy(meta.epicUrl), StoreLink("Epic Games", meta.epicUrl, "View on Epic")))

\* ModalRenderers[type] is defined
HasRenderer(type) == type \in {Str(<<"movie">>), Str(<<"tv-show">>), Str(<<"game">>)}

\* ModalRenderers[type].render(item)
Render(e, it) ==
  LET type == it.metadata.props.type
  IN CASE type = Str(<<"movie">>) -> RenderMovie(it)
       [] type = Str(<<"tv-show">>) -> RenderTVShow(e, it)
       [] type = Str(<<"game">>) -> RenderGame(it)

\* the markup of one detail card of populateModalDetails
DetailCard(detail) ==
  <<Lit("< div class=\"modal-detail-card\" ><span class=\"detail-card-label\">"),
    [via |-> "sanitizeHTML", text |-> sanitizeHTML(Str(<<detail.label>>)).s],
    Lit("</span><span class=\"detail-card-value\">")>>
  \o (IF detail.isHtml THEN detail.tpl
      ELSE <<[via |-> "sanitizeHTML", text |-> sanitizeHTML(detail.value).s]>>)
  \o <<Lit("</span></div >")>>

RECURSIVE DetailsMarkup(_)
DetailsMarkup(rows) ==
  IF rows = <<>> THEN <<>> ELSE DetailCard(Head(rows)) \o DetailsMarkup(Tail(rows))

(***************************************************************************)
(* bookmarkManager and CardComponents.  localStorage is the list parsed    *)
(* from the stored JSON text (no stored text reads as the empty list).     *)
(***************************************************************************)
\* bookmarkManager.getAll()
getAll(store) == store

\* bookmarkManager.isBookmarked(id)
isBookmarked(store, id) == \E i \in 1..Len(getAll(store)) : getAll(store)[i].id = id

\* JSON.stringify then JSON.parse of an array element: undefined, a function
\* and NaN become null
JsonElement(x) ==
  CASE x.t \in {"undefined", "function"} -> Null
    [] x.t = "number" /\ x.s # <<>> -> Null
    [] OTHER -> x

\* ... of a property value: an undefined or function-valued property is
\* dropped, and reads as undefined afterwards
JsonValue(v) ==
  CASE v.t = "array" -> Arr([i \in 1..Len(v.items) |-> JsonElement(v.items[i])])
    [] v.t \in {"undefined", "function"} -> Undef
    [] v.t = "number" /\ v.s # <<>> -> Null
    [] OTHER -> v

\* ... of an item
JsonItem(it) ==
  [f \in DOMAIN it |->
     CASE f = "ratingMax" -> it[f]
       [] f = "metadata" ->
            MetaObject([k \in DOMAIN it[f].props |-> JsonValue(it[f].props[k])])
       [] OTHER -> JsonValue(it[f])]

\* localStorage.setItem(STORAGE_KEY, JSON.stringify(bookmarks))
save(bookmarks) == [i \in 1..Len(bookmarks) |-> JsonItem(bookmarks[i])]

\* bookmarks.findIndex(b => b.id === id), 0 for -1
FindIndex(bookmarks, id) ==
  IF \E i \in 1..Len(bookmarks) : bookmarks[i].id = id
  THEN CHOOSE i \in 1..Len(bookmarks) :
         bookmarks[i].id = id /\ \A j \in 1..(i - 1) : bookmarks[j].id # id
  ELSE 0

\* bookmarks.splice(index, 1)
Splice(bookmarks, index) ==
  [i \in 1..(Len(bookmarks) - 1) |-> IF i < index THEN bookmarks[i] ELSE bookmarks[i + 1]]

toggle_KeepsEntry(store, it) ==
  LET bookmarks == getAll(store)
      index == FindIndex(bookmarks, it.id)
  IN [store |-> save(IF index = 0 THEN Append(bookmarks, it) ELSE bookmarks),
      added |-> index = 0]

\* bookmarkManager.toggle(item): the store it leaves and the value it returns
toggle(store, it) ==
  LET bookmarks == getAll(store)
      index == FindIndex(bookmarks, it.id)
  IN [store |-> save(IF index = 0 THEN Append(bookmarks, it)
                     ELSE Splice(bookmarks, index)),
      added |-> index = 0]

\* text produced by formatting a Date or a number, not copied from a field
Formatted(toks) == [via |-> "format", text |-> toks]
Sanitized(v) == [via |-> "sanitizeHTML", text |-> sanitizeHTML(v).s]

\* Formatters.ratingNormalized(rating, ratingMax), in tenths of a point
ratingNormalized(rating, ratingMax) ==
  IF rating \in {Null, Undef} \/ GlobalIsNaN(rating) THEN 0
  ELSE LET numRating == ParseFloat(rating)
       IN IF ratingMax = 100 THEN numRating.n ELSE 10 * numRating.n

\* String(parseFloat((tenths / 10).toFixed(1)))
ScoreText(tenths) ==
  IF tenths % 10 = 0 THEN <<ToString(tenths \div 10)>>
  ELSE <<ToString(tenths \div 10), ".", ToString(tenths % 10)>>

\* Formatters.releaseBadgeText(itemType, isToday)
releaseBadgeText(itemType, isToday) ==
  IF ~isToday THEN ""
  ELSE IF itemType = Str(<<"tv-show">>) THEN "New<br>Episode<br>Today!"
  ELSE IF itemType = Str(<<"movie">>) THEN "Digital<br>Release<br>Today!"
  ELSE ""

\* CardComponents.createPosterImage(item)
createPosterImage(it) ==
  <<Lit("<img class=\"content-poster-image\" src=\""), InterpolateURL(it.poster),
    Lit("\" alt=\""), Sanitized(it.title), Lit("\" loading=\"lazy\">")>>

\* CardComponents.createDateBadge(dateString, item) at clock e; the month and
\* the day of the month are rendered from the Date, here as the local day
createDateBadge(e, dateString, it) ==
  IF ~Truthy(dateString) THEN <<>>
  ELSE LET dateObj == NewDate(dateString)
           month == IF dateObj.valid THEN <<"Mon">> ELSE <<"Invalid Date">>
           day == IF dateObj.valid THEN <<ToString(LocalDay(e, dateObj.h))>> ELSE <<"NaN">>
           isToday == dateObj.valid
                        /\ SetHoursMidnight(e, dateObj.h) = SetHoursMidnight(e, e.now)
           badgeText == IF isToday THEN releaseBadgeText(it.metadata.props.type, isToday)
                        ELSE ""
           showSpecialBadge == badgeText # ""
           countdownStatus == getCountdownStatus(e, dateString)
           showCountdownBadge == /\ ~isToday
                                 /\ countdownStatus.isCountdown
                                 /\ Truthy(countdownStatus.daysUntil)
           stacked == <<Lit("<span class=\"date-month\">"), Formatted(month),
                        Lit("</span><span class=\"date-day\">"), Formatted(day),
                        Lit("</span>")>>
       IN IF showSpecialBadge
          THEN <<Lit("<div class=\"content-date-stacked has-special-release\">")>>
                 \o stacked
                 \o <<Lit("<span class=\"special-release-text\">"), Lit(badgeText),
                      Lit("</span></div>")>>
          ELSE IF showCountdownBadge
          THEN <<Lit("<div class=\"content-date-stacked has-countdown-release\">")>>
                 \o stacked
                 \o <<Lit("<span class=\"countdown-release-text\">"),
                      Formatted(JsToString(countdownStatus.daysUntil) \o <<" days<br>left">>),
                      Lit("</span></div>")>>
          ELSE <<Lit("<div class=\"content-date-stacked\">")>> \o stacked
                 \o <<Lit("</div>")>>

\* CardComponents.createTBAText(item)
createTBAText(it) ==
  IF Truthy(it.releaseDate) THEN <<>>
  ELSE <<Lit("<div class=\"tba-text\">DIGITAL<br>RELEASE<br>DATE: TBA</div>")>>

\* CardComponents.createBookmarkButton(item)
createBookmarkButton(store, it) ==
  LET activeClass == IF isBookmarked(store, it.id) THEN "active" ELSE ""
  IN <<Lit("<button class=\"bookmark-btn-card " \o activeClass
             \o "\" aria-label=\"Bookmark "),
       Sanitized(it.title), Lit("\" data-item-id=\""), Interpolate(it.id),
       Lit("\"><svg>...</svg></button>")>>

\* `${primaryGenre}, ${secondaryGenre}` or primaryGenre alone
GenreDisplay(genres) ==
  LET n == Len(genres.items)
      primaryGenre == IF n > 0 THEN genres.items[1] ELSE Str(<<>>)
      secondaryGenre == IF n > 1 THEN genres.items[2] ELSE Str(<<>>)
  IN IF Truthy(secondaryGenre)
     THEN Str(JsToString(primaryGenre) \o <<", ">> \o JsToString(secondaryGenre))
     ELSE primaryGenre

\* CardComponents.createOverlay(item)
createOverlay(it) ==
  <<Lit("<div class=\"content-details-overlay\"><h3 class=\"content-title\">"),
    Sanitized(it.title),
    Lit("</h3><div class=\"content-genre\">"),
    Sanitized(GenreDisplay(it.genres)),
    Lit("</div><div class=\"content-rating\">Score "),
    Formatted(ScoreText(ratingNormalized(it.rating, it.ratingMax))),
    Lit("/10</div><p class=\"content-synopsis\">"),
    Sanitized(it.description),
    Lit("</p></div>")>>

\* CardComponents.buildCardHTML(item)
buildCardHTML(e, store, it) ==
  <<Lit("<div class=\"content-poster\">")>>
  \o createPosterImage(it)
  \o createDateBadge(e, it.releaseDate, it)
  \o createTBAText(it)
  \o createBookmarkButton(store, it)
  \o createOverlay(it)
  \o <<Lit("</div>")>>

(***************************************************************************)
(* Bounds and input sets                                                   *)
(***************************************************************************)
MaxStrLen == 3       \* longest data string enumerated character by character
MaxListLen == 2      \* longest array enumerated entry by entry
MaxDaysAhead == 9    \* latest release day enumerated, counted from NowDay
NowDay == 10         \* the UTC day of the clock
MaxLoads == 2        \* calls of loadContent in one run
MaxBookmarks == 2    \* bookmarks in the store
MaxRefreshes == 1    \* loads of the bookmarks view in one run
MaxNavigations == 3  \* routes executed or deferred in one run, the one of a hashchange event included
MaxInputs == 3       \* input events of the search box in one run
MaxClock == 500      \* the time, in ms, up to which input events arrive
TickMs == 100        \* the step of the clock of the search box, in ms

\* all strings over an alphabet, up to a length
Strings(alphabet, maxLen) == UNION {[1..k -> alphabet] : k \in 0..maxLen}

\* all arrays over a set of entries, up to a length
Lists(entries, maxLen) == {Arr(xs) : xs \in UNION {[1..k -> entries] : k \in 0..maxLen}}

DefaultEnv == [now |-> NowDay * HoursPerDay + 12, base |-> 0, shift |-> 0, transDay |-> NowDay]

\* clocks in the morning, at noon and at night; zones west and east of
\* Greenwich; no transition, or one today or in three days, back or forward
Envs ==
  {[now |-> NowDay * HoursPerDay + hr, base |-> b, shift |-> 0, transDay |-> NowDay] :
     hr \in {0, 12, 23}, b \in {-8, 0, 9}}
  \cup
  {[now |-> NowDay * HoursPerDay + hr, base |-> b, shift |-> sh, transDay |-> NowDay + k] :
     hr \in {0, 12, 23}, b \in {-8, 0, 9}, sh \in {-1, 1}, k \in {0, 3}}

RatingChars == {"7", "1", "0", "-", "a", " "}

RatingVals ==
  {Undef, Null, NaN, Bool(TRUE), Bool(FALSE)}
  \cup {Num(i) : i \in {-1, 0, 7, 10, 11, 100, 101, 150}}
  \cup {Str(cs) : cs \in Strings(RatingChars, MaxStrLen)}

TitleVals == {Undef, Null, Str(<<>>), Str(<<"X">>), Str(<<"<", "b", ">">>)}

\* release instants around the clock's day, early and late in the UTC day
DayOffsets == (-2)..MaxDaysAhead
Instants == {(NowDay + d) * HoursPerDay + hr : d \in DayOffsets, hr \in {0, 13}}

NotADate == {Undef, Null, Str(<<>>), Str(<<"a">>)}

\* what getCountdownStatus and the date fields of raw records may hold
DateStrings ==
  {IsoStr(h) : h \in Instants} \cup {DateStr((NowDay + d) * HoursPerDay) : d \in DayOffsets}

\* a few dates: yesterday, today, tomorrow
NearDates ==
  {IsoStr((NowDay + d) * HoursPerDay + hr) : d \in {-1, 0, 1}, hr \in {0, 13}}
  \cup {DateStr((NowDay + d) * HoursPerDay) : d \in {-1, 0, 1}}

UnixSeconds == {Num(((NowDay + d) * HoursPerDay) * SecondsPerHour) : d \in {-1, 0, 1}}

GenreEntries ==
  {Num(28), Num(12), Num(10759), Num(999), Str(<<"Action">>), Str(<<>>), Str(<<"2", "8">>),
   Str(<<"constructor">>), Null, Obj(TRUE, Str(<<"Drama">>)), Obj(TRUE, Num(5)),
   Obj(FALSE, Undef)}

GenreInputs ==
  {Undef, Null, Str(<<"Action">>), Num(28), Obj(TRUE, Str(<<"Drama">>))}
  \cup Lists(GenreEntries, MaxListLen)

GenreMaps == {Null, movieGenreMap, tvGenreMap}

ListEntries ==
  {Str(<<"PC">>), Obj(TRUE, Str(<<"Xbox">>)), Str(<<>>), Null, Obj(FALSE, Undef),
   Obj(TRUE, Str(<<>>)), Num(5)}

ListInputs == {Undef, Null, Str(<<"PC">>)} \cup Lists(ListEntries, MaxListLen)

UrlVals ==
  {Undef, Null, Str(<<>>), Num(5),
   Str(<<"https://", "store.example/app/1">>),
   Str(<<"https://", "x/", "\"", ">", "<">>),
   Str(<<" ", "https://", "store.example/app/1">>),
   Str(<<"javascript:", "alert(1)">>),
   Str(<<" ", "JavaScript:", "alert(1)">>),
   Str(<<"data:", "text/html,x">>),
   Str(<<"store.example/app/1">>)}

ImdbVals == {Undef, Null, Str(<<>>), Str(<<"tt14999684">>), Str(<<"\"", ">", "<", "&">>), Num(5)}

LanguageVals ==
  {Undef, Null, Str(<<"e", "n">>), Str(<<"f", "r">>), Str(<<"x", "x">>), Str(<<"f">>),
   Str(<<"f", "!">>), Num(5)}

AmountVals == {Undef, Null, Num(0), Num(-5), Num(500), Num(50000), Num(1400000),
               Str(<<"9", "1">>), Str(<<"a">>), Bool(TRUE)}

RuntimeVals == {Undef, Null, Num(0), Num(45), Num(91), Num(-5), Str(<<"9", "1">>),
                Str(<<"a">>), Bool(TRUE)}

PosterVals == {Undef, Null, Str(<<>>), Str(<<"placeholder_poster.jpg">>),
               Str(<<"/", "abc.jpg">>), Str(<<"https://", "img.example/a.jpg">>), Num(5)}

(***************************************************************************)
(* Raw records                                                             *)
(***************************************************************************)
Tomorrow == DateStr((NowDay + 1) * HoursPerDay)
Yesterday == DateStr((NowDay - 1) * HoursPerDay)

TypicalMovie ==
  [id |-> Num(1), title |-> Str(<<"X">>), overview |-> Str(<<"O">>),
   poster_path |-> Str(<<"/", "abc.jpg">>), digital_release_date |-> Tomorrow,
   release_date |-> Yesterday, vote_average |-> Num(7),
   genre_ids |-> Arr(<<Num(28), Num(12)>>), imdb_id |-> Str(<<"tt14999684">>),
   runtime |-> Num(91), original_title |-> Str(<<"X">>),
   original_language |-> Str(<<"f", "r">>), production_companies |-> Str(<<"Studio">>),
   budget |-> Num(1400000), revenue |-> Num(50000)]

TypicalShow ==
  [id |-> Num(1396), title |-> Str(<<"X">>), name |-> Str(<<"Y">>),
   overview |-> Str(<<"O">>), poster_path |-> Str(<<"/", "abc.jpg">>),
   first_air_date |-> Yesterday, digital_release_date |-> Yesterday,
   next_episode_date |-> Tomorrow, vote_average |-> Num(7),
   genre_ids |-> Arr(<<Num(10759), Num(18)>>), imdb_id |-> Str(<<"tt0903747">>),
   number_of_seasons |-> Num(5), number_of_episodes |-> Num(62),
   networks |-> Arr(<<Str(<<"HBO">>), Str(<<"HBO Max">>)>>),
   release_status |-> Str(<<"Ended">>), created_by |-> Arr(<<Str(<<"Vince">>)>>)]

TypicalGame ==
  [slug |-> Str(<<"forza-horizon-5">>), name |-> Str(<<"X">>), summary |-> Str(<<"O">>),
   poster_path |-> Str(<<"https://", "img.example/a.jpg">>),
   first_release_date |-> Num((NowDay + 1) * HoursPerDay * SecondsPerHour),
   total_rating |-> Num(92), genres |-> Arr(<<Str(<<"Racing">>)>>),
   steam_url |-> Str(<<"https://", "store.example/app/1">>),
   epic_url |-> Str(<<"https://", "store.example/app/1">>),
   platforms |-> Arr(<<Str(<<"PC">>)>>), developers |-> Arr(<<Str(<<"Studio">>)>>),
   publishers |-> Arr(<<Str(<<"Studio">>)>>), game_modes |-> Arr(<<Str(<<"Single player">>)>>)]

\* every subset of a record's optional fields present, the others absent
Presence(typical, idField) ==
  {[f \in DOMAIN typical |-> IF f \in present \/ f = idField THEN typical[f] ELSE Undef] :
     present \in SUBSET (DOMAIN typical \ {idField})}

PresenceMovies == Presence(TypicalMovie, "id")
PresenceShows == Presence(TypicalShow, "id")
PresenceGames == Presence(TypicalGame, "slug")

DateFieldVals == NotADate \cup NearDates \cup UnixSeconds \cup {Bool(TRUE)}

RawMovies ==
  PresenceMovies
  \cup {[TypicalMovie EXCEPT !.vote_average = r] : r \in RatingVals}
  \cup {[TypicalMovie EXCEPT !.title = v] : v \in TitleVals}
  \cup {[TypicalMovie EXCEPT !.digital_release_date = d, !.release_date = d2] :
          d \in DateFieldVals, d2 \in {Undef, Yesterday, Str(<<"a">>)}}
  \cup {[TypicalMovie EXCEPT !.genre_ids = g] : g \in GenreInputs}
  \cup {[TypicalMovie EXCEPT !.poster_path = v] : v \in PosterVals}
  \cup {[TypicalMovie EXCEPT !.imdb_id = v, !.original_language = l] :
          v \in ImdbVals, l \in LanguageVals}
  \cup {[TypicalMovie EXCEPT !.runtime = v, !.budget = b] :
          v \in RuntimeVals, b \in AmountVals}
  \cup {[TypicalMovie EXCEPT !.revenue = b] : b \in AmountVals}

StatusVals == {Undef, Null, Str(<<>>), Str(<<"Ended">>), Str(<<"<", "i", ">">>), Num(5)}

RawShows ==
  PresenceShows
  \cup {[TypicalShow EXCEPT !.vote_average = r] : r \in RatingVals}
  \cup {[TypicalShow EXCEPT !.title = v, !.name = w] : v \in TitleVals, w \in TitleVals}
  \cup {[TypicalShow EXCEPT !.genre_ids = g] : g \in GenreInputs}
  \cup {[TypicalShow EXCEPT !.poster_path = v] : v \in PosterVals}
  \cup {[TypicalShow EXCEPT !.imdb_id = v, !.release_status = w] :
          v \in ImdbVals, w \in StatusVals}
  \cup {[TypicalShow EXCEPT !.number_of_seasons = v, !.number_of_episodes = w] :
          v \in RuntimeVals, w \in RuntimeVals}
  \cup {[TypicalShow EXCEPT !.networks = l] : l \in ListInputs}
  \cup {[TypicalShow EXCEPT !.created_by = l] : l \in ListInputs}

\* shows whose dates vary, to be adapted under every clock
DatedShows ==
  {[TypicalShow EXCEPT !.first_air_date = d, !.digital_release_date = d2,
                       !.next_episode_date = d3] :
     d \in DateFieldVals, d2 \in {Undef, Yesterday, Str(<<"a">>)},
     d3 \in {Undef, Str(<<>>), Tomorrow, Str(<<"a">>)}}

RawGames ==
  PresenceGames
  \cup {[TypicalGame EXCEPT !.total_rating = r] : r \in RatingVals}
  \cup {[TypicalGame EXCEPT !.name = v] : v \in TitleVals}
  \cup {[TypicalGame EXCEPT !.first_release_date = d] : d \in DateFieldVals}
  \cup {[TypicalGame EXCEPT !.genres = g] : g \in GenreInputs}
  \cup {[TypicalGame EXCEPT !.poster_path = v] : v \in PosterVals}
  \cup {[TypicalGame EXCEPT !.steam_url = u, !.epic_url = v] : u \in UrlVals, v \in UrlVals}
  \cup {[TypicalGame EXCEPT ![f] = l] :
          f \in {"platforms", "developers", "publishers", "game_modes"}, l \in ListInputs}

(***************************************************************************)
(* Content loading: CATEGORY_CONFIG, dataCache, loadContent, displayItems  *)
(* and the date filter.  Date.now() is `clock`, in milliseconds.  The two  *)
(* builds of the script differ here: the path build (js/script.js) keys    *)
(* the cache by category and has no date filter; the hash build has        *)
(* subcategories and filters what it displays.                             *)
(***************************************************************************)
CACHE_DURATION == 300000

NoSubcategory == "null"

NoDataFile == "null"

CATEGORY_CONFIG ==
  [category \in {"movies", "tv-shows", "games", "books", "music", "bookmarks"} |->
     CASE category = "movies" ->
            [dataFile |-> "./shared-data/data_movies.json", adapter |-> "normalizeMovie",
             subcategories |-> {"past-week"}]
       [] category = "tv-shows" ->
            [dataFile |-> "./shared-data/data_tv_shows.json",
             adapter |-> "normalizeTVShow", subcategories |-> {}]
       [] category = "games" ->
            [dataFile |-> "./shared-data/data_games.json", adapter |-> "normalizeGame",
             subcategories |-> {}]
       [] category = "books" ->
            [dataFile |-> "./shared-data/data_books.json", adapter |-> "identity",
             subcategories |-> {}]
       [] category = "music" ->
            [dataFile |-> "./shared-data/data_music.json", adapter |-> "identity",
             subcategories |-> {}]
       [] category = "bookmarks" ->
            [dataFile |-> NoDataFile, adapter |-> "identity", subcategories |-> {}]]

\* const cacheKey = subcategory ? `${category}/${subcategory}` : category
CacheKeyOf(category, subcategory) ==
  IF subcategory = NoSubcategory THEN category
  ELSE IF category = "movies" /\ subcategory = "past-week" THEN "movies/past-week"
  ELSE category

\* the data file loadContent fetches
DataFileOf(category, subcategory) ==
  IF subcategory # NoSubcategory /\ subcategory \in CATEGORY_CONFIG[category].subcategories
  THEN "./shared-data/data_movies_past_week.json"
  ELSE CATEGORY_CONFIG[category].dataFile

CacheKeys == {"movies", "movies/past-week", "tv-shows", "games", "books", "music"}

\* dataCache: data[key] and timestamps[key]; `has` is key in this.data
NoEntry == [has |-> FALSE, data |-> <<>>, timestamp |-> 0]

dataCache_has(cache, key) == cache[key].has

dataCache_get(cache, key) == cache[key].data

dataCache_set(cache, key, value, now) ==
  [cache EXCEPT ![key] = [has |-> TRUE, data |-> value, timestamp |-> now]]

dataCache_isValid_Inclusive(cache, key, now) ==
  IF ~dataCache_has(cache, key) THEN FALSE
  ELSE LET age == now - cache[key].timestamp
       IN age <= CACHE_DURATION

dataCache_isValid(cache, key, now) ==
  IF ~dataCache_has(cache, key) THEN FALSE
  ELSE LET age == now - cache[key].timestamp
       IN age < CACHE_DURATION

\* config.adapter(item) for one record of the data file; a null record has
\* no fields for an adapter to read
ApplyAdapter(e, adapter, r) ==
  CASE adapter = "identity" -> r
    [] r = Null -> Thrown
    [] adapter = "normalizeMovie" -> normalizeMovie(r)
    [] adapter = "normalizeTVShow" -> normalizeTVShow(e, r)
    [] adapter = "normalizeGame" -> normalizeGame(r)

NormalizeData_SkipFailed(e, adapter, data) ==
  LET one(r) == ApplyAdapter(e, adapter, r)
      kept(it) == it # Thrown
  IN SelectSeq(MapSeq(data, one), kept)

\* data.map(config.adapter): the normalised list, or the exception rethrown
NormalizeData(e, adapter, data) ==
  LET one(r) == ApplyAdapter(e, adapter, r)
      normalizedData == MapSeq(data, one)
  IN IF AnyThrown(normalizedData) THEN Thrown ELSE normalizedData

\* the calendar of the date filter: months of equal length
DaysPerMonth == 30
MonthOf(day) == day \div DaysPerMonth

\* filterItemsByDate(items, filter) at clock e
filterItemsByDate(e, items, filter) ==
  IF filter = "all" THEN items
  ELSE LET today == LocalDay(e, e.now)
           keep(it) ==
             IF ~Truthy(it.releaseDate) THEN FALSE
             ELSE LET releaseDate == NewDate(it.releaseDate)
                      releaseDateOnly == LocalDay(e, releaseDate.h)
                  IN IF ~releaseDate.valid THEN FALSE
                     ELSE IF filter = "week"
                       THEN releaseDateOnly >= today - 7 /\ releaseDateOnly <= today
                     ELSE IF filter = "month"
                       THEN MonthOf(releaseDateOnly) = MonthOf(today)
                     ELSE TRUE
       IN SelectSeq(items, keep)

\* displayItems(items) in the given build
displayItems(b, items) ==
  [cards |-> items,
   slots |-> [i \in 1..Len(items) |-> [index |-> i - 1, removing |-> "no"]],
   display |-> IF b = "path" THEN "unset"
               ELSE IF Len(items) = 0 THEN "none" ELSE "grid"]

\* the .catch of loadContent: container.innerHTML = ''
LoadFailed(b, box) ==
  [cards |-> <<>>, slots |-> <<>>, display |-> IF b = "path" THEN box.display ELSE "none"]

\* Router.routes: the category and subcategory each handler loads
Routes(b) ==
  [path \in {"movies", "tv-shows", "games", "books", "music", "bookmarks"}
            \cup (IF b = "hash" THEN {"movies/past-week"} ELSE {}) |->
     IF path = "movies/past-week"
     THEN [category |-> "movies", subcategory |-> "past-week"]
     ELSE [category |-> path, subcategory |-> NoSubcategory]]

(***************************************************************************)
(* Router                                                                  *)
(***************************************************************************)
defaultRoute == "movies"

\* key in this.routes: own and inherited keys
InRoutes(b, key) == key \in DOMAIN Routes(b) \cup ObjectPrototypeKeys

\* Router.isValidRoute(path)
isValidRoute(b, path) == InRoutes(b, path)

RouteTitles ==
  [path \in {"movies", "movies/past-week", "tv-shows", "games", "books", "music",
             "bookmarks"} |->
     CASE path = "movies" -> "MOVIES"
       [] path = "movies/past-week" -> "MOVIES / PAST WEEK"
       [] path = "tv-shows" -> "TV SHOWS"
       [] path = "games" -> "GAMES"
       [] path = "books" -> "BOOKS"
       [] path = "music" -> "MUSIC"
       [] path = "bookmarks" -> "BOOKMARKS"]

\* a value found under an inherited key: a function or Object.prototype,
\* without title and without handler
NoTitle == "undefined"
NoHandler == "undefined"
NoLink == "none"

\* Router.getRoute(path): this.routes[path] || this.routes[this.defaultRoute]
getRoute(b, path) ==
  IF path \in DOMAIN Routes(b) THEN [title |-> RouteTitles[path], handler |-> path]
  ELSE IF path \in ObjectPrototypeKeys THEN [title |-> NoTitle, handler |-> NoHandler]
  ELSE [title |-> RouteTitles[defaultRoute], handler |-> defaultRoute]

RECURSIVE JoinSegments(_)
\* segments.join('/')
JoinSegments(segments) ==
  IF segments = <<>> THEN ""
  ELSE IF Len(segments) = 1 THEN segments[1]
  ELSE segments[1] \o "/" \o JoinSegments(Tail(segments))

\* Router.getCurrentRoute(): the path build skips a first segment that is
\* no route; the hash build returns the whole pathname
getCurrentRoute(b, loc) ==
  LET segments == loc.pathname
      path == IF b = "hash" THEN JoinSegments(segments)
              ELSE IF Len(segments) > 0 /\ ~InRoutes(b, segments[1])
                   THEN JoinSegments(Tail(segments))
              ELSE IF Len(segments) > 0 THEN segments[1]
              ELSE ""
  IN IF path = "" THEN defaultRoute ELSE path

\* the URL after navigate updated the history: history.pushState under the
\* base path (path build), window.location.hash (hash build)
Pushed(b, loc, path) ==
  IF b = "hash" THEN [loc EXCEPT !.hash = "#/" \o path]
  ELSE LET segments == loc.pathname
           basePath == IF Len(segments) > 1 /\ ~InRoutes(b, segments[1])
                       THEN <<segments[1]>> ELSE <<>>
       IN [loc EXCEPT !.pathname = basePath \o <<path>>]

\* let searchTimeout: undefined until the first input event
NoTimer == 0

\* the debounce delay of the search input, in ms
SearchDebounce == 300

clearTimeout_Ignored(timers, id) == timers

\* clearTimeout(id): the timer with that id, if still pending, is dropped
clearTimeout(timers, id) ==
  LET keep(timer) == timer.id # id IN SelectSeq(timers, keep)

\* navigated before Router.init ran, and after a step that is no navigate call
NotLoaded == "not loaded"
NoPath == "no path"

(***************************************************************************)
(* Data files: what a fetch of a category's file may answer                *)
(***************************************************************************)
MovieA == TypicalMovie
MovieB == [TypicalMovie EXCEPT !.id = Num(2), !.title = Str(<<"Y">>),
                               !.digital_release_date = Yesterday]
\* a record whose genre list makes normalizeGenres throw
BadMovie == [TypicalMovie EXCEPT !.id = Num(3),
                                 !.genre_ids = Arr(<<Obj(TRUE, Str(<<"Drama">>)), Null>>)]
BadShow == [TypicalShow EXCEPT !.poster_path = Num(5)]
\* a show whose id is also the id of a movie
SameIdShow == [TypicalShow EXCEPT !.id = MovieA.id]

\* a record of a books or music file, already in the shape of an item
PlaceholderRecord ==
  [id |-> Num(7), title |-> Str(<<"B">>), description |-> Undef, poster |-> Undef,
   releaseDate |-> Yesterday, rating |-> Num(8), ratingMax |-> 10,
   genres |-> Arr(<<>>), metadata |-> MetaObject([type |-> Str(<<"book">>)])]

DataFiles(dataFile) ==
  CASE dataFile = "./shared-data/data_movies.json" ->
         {<<>>, <<MovieA>>, <<MovieB, MovieA>>, <<MovieA, BadMovie>>}
    [] dataFile = "./shared-data/data_movies_past_week.json" ->
         {<<MovieB>>, <<BadMovie, MovieB>>}
    [] dataFile = "./shared-data/data_tv_shows.json" ->
         {<<TypicalShow>>, <<TypicalShow, BadShow>>}
    [] dataFile = "./shared-data/data_games.json" -> {<<TypicalGame>>, <<Null>>}
    [] OTHER -> {<<PlaceholderRecord>>}

\* a fetch rejects, answers with a status that is not ok, answers with JSON
\* that is not an array, or answers with one of the file's arrays
Responses(dataFile) ==
  {[kind |-> k, data |-> <<>>] : k \in {"rejected", "notOk", "notArray"}}
  \cup {[kind |-> "ok", data |-> d] : d \in DataFiles(dataFile)}

(***************************************************************************)
(* refreshBookmarks and SearchModule.loadAllContent: every data file is    *)
(* fetched on its own, and a load that fails yields the empty list.        *)
(***************************************************************************)
loadDataFile_Partial(e, adapter, response) ==
  IF response.kind # "ok" THEN <<>>
  ELSE NormalizeData_SkipFailed(e, adapter, response.data)

\* the body of one fetch promise: [] for a rejected fetch, a response that
\* is not ok, JSON without a map method, or an adapter that throws
loadDataFile(e, adapter, response) ==
  IF response.kind # "ok" THEN <<>>
  ELSE LET normalizedData == NormalizeData(e, adapter, response.data)
       IN IF normalizedData = Thrown THEN <<>> ELSE normalizedData

categoriesToFetch == <<"movies", "tv-shows", "games", "books", "music">>

RECURSIVE Flat(_)
\* results.flat()
Flat(results) ==
  IF results = <<>> THEN <<>> ELSE Head(results) \o Flat(Tail(results))

RECURSIVE FreshItem(_, _)
\* freshItemMap.get(id): the last of the fresh items with that id, if any
FreshItem(allFreshItems, id) ==
  IF allFreshItems = <<>> THEN Undef
  ELSE IF allFreshItems[Len(allFreshItems)].id = id THEN allFreshItems[Len(allFreshItems)]
  ELSE FreshItem(SubSeq(allFreshItems, 1, Len(allFreshItems) - 1), id)

\* the fresh items of refreshBookmarks, the fetch of each category
\* answering responses[category]: results.flat()
AllFreshItems(e, responses) ==
  Flat([i \in 1..Len(categoriesToFetch) |->
          loadDataFile(e, CATEGORY_CONFIG[categoriesToFetch[i]].adapter,
                       responses[categoriesToFetch[i]])])

Replaced_WheneverFresh(bookmark, allFreshItems) ==
  FreshItem(allFreshItems, bookmark.id) # Undef

\* the bookmark is replaced by the fresh item of its id
Replaced(bookmark, allFreshItems) ==
  \E freshItem \in {FreshItem(allFreshItems, bookmark.id)} :
    freshItem # Undef /\ JsonItem(bookmark) # JsonItem(freshItem)

\* bookmarks.map(...) of refreshBookmarks, and hasUpdates
UpdateBookmarks(bookmarks, allFreshItems) ==
  IF \E i \in 1..Len(allFreshItems) : allFreshItems[i] = Null
  THEN [returned |-> bookmarks, hasUpdates |-> FALSE]   \* item.id throws: outer catch
  ELSE [returned |-> [i \in 1..Len(bookmarks) |->
                        IF Replaced(bookmarks[i], allFreshItems)
                        THEN FreshItem(allFreshItems, bookmarks[i].id) ELSE bookmarks[i]],
        hasUpdates |-> \E i \in 1..Len(bookmarks) : Replaced(bookmarks[i], allFreshItems)]

\* refreshBookmarks(bookmarks): the list returned and whether it was saved
refreshBookmarks(e, bookmarks, responses) ==
  IF Len(bookmarks) = 0 THEN [returned |-> bookmarks, hasUpdates |-> FALSE]
  ELSE CHOOSE refreshed \in {UpdateBookmarks(bookmarks, allFreshItems) :
                               allFreshItems \in {AllFreshItems(e, responses)}} : TRUE

\* const dateA = a.releaseDate ? new Date(a.releaseDate) : new Date('9999-12-31')
SortDate(it) ==
  IF Truthy(it.releaseDate) THEN NewDate(it.releaseDate)
  ELSE ValidDate(9999 * 366 * HoursPerDay)

\* dateA - dateB < 0; a difference of NaN compares as equal
SortsBefore(a, b) ==
  SortDate(a).valid /\ SortDate(b).valid /\ SortDate(a).h < SortDate(b).h

RECURSIVE InsertByDate(_, _)
InsertByDate(sorted, it) ==
  IF sorted = <<>> THEN <<it>>
  ELSE IF SortsBefore(it, Head(sorted)) THEN <<it>> \o sorted
       ELSE <<Head(sorted)>> \o InsertByDate(Tail(sorted), it)

RECURSIVE SortByReleaseDate(_)
\* bookmarks.sort((a, b) => dateA - dateB), a stable sort
SortByReleaseDate(items) ==
  IF items = <<>> THEN <<>>
  ELSE InsertByDate(SortByReleaseDate(SubSeq(items, 1, Len(items) - 1)), items[Len(items)])

\* the data files loadAllContent loads, in the order of Object.entries
SearchDataFiles ==
  <<[dataFile |-> "./shared-data/data_movies.json", adapter |-> "normalizeMovie"],
    [dataFile |-> "./shared-data/data_movies_past_week.json", adapter |-> "normalizeMovie"],
    [dataFile |-> "./shared-data/data_tv_shows.json", adapter |-> "normalizeTVShow"],
    [dataFile |-> "./shared-data/data_games.json", adapter |-> "normalizeGame"],
    [dataFile |-> "./shared-data/data_books.json", adapter |-> "identity"],
    [dataFile |-> "./shared-data/data_music.json", adapter |-> "identity"]>>

\* `${item.metadata && item.metadata.type ? item.metadata.type : 'item'}-${item.id}`
DedupeKey(it) ==
  <<IF Truthy(it.metadata) /\ Truthy(it.metadata.props.type)
    THEN JsToString(it.metadata.props.type) ELSE <<"item">>,
    JsToString(it.id)>>

RECURSIVE dedupeItems(_, _)
\* SearchModule.dedupeItems(items), the keys in `seen` already taken
dedupeItems(items, seen) ==
  IF items = <<>> THEN <<>>
  ELSE LET it == Head(items)
       IN IF it = Null \/ ~Truthy(it.id) \/ DedupeKey(it) \in seen
          THEN dedupeItems(Tail(items), seen)
          ELSE <<it>> \o dedupeItems(Tail(items), seen \cup {DedupeKey(it)})

\* SearchModule.loadAllContent(), each data file answering responses[i]
loadAllContent(e, responses) ==
  LET results == [i \in 1..Len(SearchDataFiles) |->
                    loadDataFile(e, SearchDataFiles[i].adapter, responses[i])]
  IN dedupeItems(Flat(results), {})

\* String.prototype.toLowerCase, token by token
toLowerCase(cs) ==
  [i \in 1..Len(cs) |->
     CASE cs[i] = "X" -> "x"
       [] cs[i] = "Y" -> "y"
       [] cs[i] = "B" -> "b"
       [] OTHER -> ToLowerToken(cs[i])]

\* hay.includes(needle)
Includes(hay, needle) ==
  \E i \in 1..(Len(hay) + 1) :
    i + Len(needle) - 1 <= Len(hay) /\ SubSeq(hay, i, i + Len(needle) - 1) = needle

\* the filter callback of SearchModule.search for one item: "match", "no",
\* or "throw" when toLowerCase is called on a value that is no string
SearchOutcome(it, lowerQuery) ==
  LET titleIs == Truthy(it.title)
      genres == IF Truthy(it.genres) /\ it.genres.t = "array" THEN it.genres.items ELSE <<>>
      hit(g) == IsString(g) /\ Includes(toLowerCase(g.s), lowerQuery)
      firstHit == IF \E k \in 1..Len(genres) : hit(genres[k])
                  THEN CHOOSE k \in 1..Len(genres) :
                         hit(genres[k]) /\ \A j \in 1..(k - 1) : ~hit(genres[j])
                  ELSE Len(genres) + 1
  IN IF titleIs /\ ~IsString(it.title) THEN "throw"
     ELSE IF titleIs /\ Includes(toLowerCase(it.title.s), lowerQuery) THEN "match"
     ELSE IF \E j \in 1..(firstHit - 1) : ~IsString(genres[j]) THEN "throw"
     ELSE IF firstHit <= Len(genres) THEN "match"
     ELSE "no"

\* results shown at most
MaxSearchResults == 8

\* SearchModule.search(query) over allItems = items throws
searchThrows(items, query) ==
  /\ Trim(query) # <<>>
  /\ \E i \in 1..Len(items) :
       SearchOutcome(items[i], Trim(toLowerCase(query))) = "throw"

\* SearchModule.search(query) over allItems = items, when it returns
search(items, query) ==
  IF Trim(query) = <<>> THEN <<>>
  ELSE LET lowerQuery == Trim(toLowerCase(query))
           matches(it) == SearchOutcome(it, lowerQuery) = "match"
           found == SelectSeq(items, matches)
       IN SubSeq(found, 1, IF Len(found) < MaxSearchResults THEN Len(found)
                           ELSE MaxSearchResults)

(***************************************************************************)
(* The state machine: an adapter normalises a raw record into an item; the *)
(* detail modal is then populated from the item.  The utilities are also   *)
(* called on their own.                                                    *)
(***************************************************************************)
NoCall == [fn |-> "none", args |-> <<>>]

\* the modal before showItemDetails ran: hidden, data-current-index unset
NoModal == [display |-> "none", item |-> Undef, currentIndex |-> 0, fading |-> FALSE]

Init ==
  /\ pc = "idle"
  /\ env = DefaultEnv
  /\ raw = Undef
  /\ item = Undef
  /\ validation = Undef
  /\ details = Rendered(<<>>)
  /\ html = <<>>
  /\ call = NoCall
  /\ ret = Undef
  /\ card = <<>>
  /\ localStorage = <<>>
  /\ build \in {"path", "hash"}
  /\ clock = 0
  /\ dataCache = [key \in CacheKeys |-> NoEntry]
  /\ container = [cards |-> <<>>, slots |-> <<>>, display |-> "unset"]
  /\ currentDateFilter = "all"
  /\ unfilteredItemsArray = <<>>
  /\ tasks = <<>>
  /\ toggled = {}
  /\ currentMoviesArray = <<>>
  /\ allItems = <<>>
  /\ searchLoad = IF build = "hash" THEN "loading" ELSE "none"
  /\ location = [pathname |-> <<>>, hash |-> ""]
  /\ page = [activeLink |-> "unset", categoryText |-> "unset", title |-> "unset"]
  /\ navigated = NotLoaded
  /\ uncaught = FALSE
  /\ scrollTimers = <<>>
  /\ hashchange = FALSE
  /\ searchTimeout = NoTimer
  /\ searchTimers = <<>>
  /\ inputEvents = <<>>
  /\ displayCalls = <<>>
  /\ searchResults = [active |-> FALSE, query |-> <<>>]
  /\ modal = NoModal
  /\ sameArray = FALSE
  /\ resultRows = <<>>

\* the adapter returned `it` (or threw) for the record r under clock e
Adapted(e, r, it, type) ==
  /\ pc' = "item"
  /\ env' = e
  /\ raw' = r
  /\ item' = it
  /\ validation' = IF it = Thrown THEN Undef
                   ELSE validateAndLog(it.metadata, type, it.title)
  /\ call' = [fn |-> type, args |-> <<>>]
  /\ UNCHANGED <<details, html, ret, card, storeVars, loadVars, searchVars, routerVars, inputVars, viewVars>>

NormalizeMovie ==
  /\ pc = "idle"
  /\ \E r \in RawMovies : Adapted(env, r, normalizeMovie(r), "movie")

NormalizeTVShow ==
  /\ pc = "idle"
  /\ \/ \E r \in RawShows : Adapted(env, r, normalizeTVShow(env, r), "tv-show")
     \/ \E e \in Envs, r \in DatedShows : Adapted(e, r, normalizeTVShow(e, r), "tv-show")

NormalizeGame ==
  /\ pc = "idle"
  /\ \E r \in RawGames : Adapted(env, r, normalizeGame(r), "game")

\* populateModalDetails(item, detailsContainer); sectionExists: the container
\* was passed or the document holds the details grid
PopulateModalDetails ==
  /\ pc = "item"
  /\ item # Thrown
  /\ \E sectionExists \in BOOLEAN :
       LET found == HasRenderer(item.metadata.props.type)
           rendered == Render(env, item)
       IN /\ details' = IF found THEN rendered ELSE details
          /\ html' = IF ~found \/ rendered.threw \/ ~sectionExists THEN html
                     ELSE DetailsMarkup(rendered.rows)
          /\ call' = [fn |-> "populateModalDetails", args |-> <<sectionExists>>]
  /\ pc' = "modal"
  /\ UNCHANGED <<env, raw, item, validation, ret, card, storeVars, loadVars, searchVars, routerVars, inputVars, viewVars>>

\* CardComponents.createCard(item, index): card.innerHTML = buildCardHTML(item)
CreateCard ==
  /\ pc = "item"
  /\ item # Thrown
  /\ card' = buildCardHTML(env, localStorage, item)
  /\ call' = [fn |-> "createCard", args |-> <<>>]
  /\ pc' = "card"
  /\ UNCHANGED <<env, raw, item, validation, details, html, ret, storeVars, loadVars, searchVars, routerVars, inputVars, viewVars>>

Returned(fn, args, result, e) ==
  /\ pc' = "returned"
  /\ call' = [fn |-> fn, args |-> args]
  /\ ret' = result
  /\ env' = e
  /\ UNCHANGED <<raw, item, validation, details, html, card, storeVars, loadVars, searchVars, routerVars, inputVars, viewVars>>

CallGetTVShowDisplayDate ==
  /\ pc = "idle"
  /\ \E e \in Envs, firstAir \in DateFieldVals,
        nextEp \in {Undef, Null, Str(<<>>), Tomorrow, Str(<<"a">>)} :
       Returned("getTVShowDisplayDate", <<firstAir, nextEp>>,
                getTVShowDisplayDate(e, firstAir, nextEp), e)

CallGetCountdownStatus ==
  /\ pc = "idle"
  /\ \E e \in Envs, d \in NotADate \cup DateStrings :
       Returned("getCountdownStatus", <<d>>, getCountdownStatus(e, d), e)

CallNormalizeGenres ==
  /\ pc = "idle"
  /\ \E g \in GenreInputs, m \in GenreMaps :
       Returned("normalizeGenres", <<g, m>>, normalizeGenres(g, m), env)

TypeNames == {"movie", "tv-show", "game", "unknown", "", "constructor", "toString"}

MetadataKeys ==
  {"type", "runtime", "imdbId", "budget", "seasons", "networks", "platforms",
   "steamUrl", "foo"}

MetadataInputs ==
  {Undef, Null, Str(<<"x">>), Num(5), Arr(<<>>)}
  \cup {MetaObject([k \in keys |-> Undef]) : keys \in SUBSET MetadataKeys}

CallValidateMetadata ==
  /\ pc = "idle"
  /\ \E m \in MetadataInputs, type \in TypeNames :
       Returned("validateMetadata", <<m, Str(<<type>>)>>, validateMetadata(m, type), env)

\* amounts around the thresholds of Formatters.currencyDisplay
Amounts ==
  {Undef, Null, NaN}
  \cup {Num(n) : n \in {0, 1, 500, 999, 1000, 1499, 1500, 50000, 500000, 999499, 999500,
                        999999, 1000000, 1400000, 2350523}}

CallCurrencyDisplay ==
  /\ pc = "idle"
  /\ \E amount \in Amounts :
       Returned("currencyDisplay", <<amount>>, currencyDisplay(amount), env)

NextAdapters ==
  \/ NormalizeMovie
  \/ NormalizeTVShow
  \/ NormalizeGame
  \/ PopulateModalDetails
  \/ CreateCard

NextUtils ==
  \/ CallGetTVShowDisplayDate
  \/ CallGetCountdownStatus
  \/ CallNormalizeGenres
  \/ CallValidateMetadata
  \/ CallCurrencyDisplay

\* the adapters and the detail modal
SpecAdapters == Init /\ [][NextAdapters]_vars

\* the utilities called on their own
SpecUtils == Init /\ [][NextUtils]_vars

(***************************************************************************)
(* Loading a category: the route handler calls loadContent, which displays *)
(* the cached list after a 200 ms fade or fetches the data file after a    *)
(* 300 ms fade.  A pending timer or fetch is a task; tasks complete in any *)
(* order.                                                                  *)
(***************************************************************************)
\* a task records the response its fetch got, once it has one
NoResponse == [kind |-> "none", data |-> <<>>]

\* a timer or fetch of a load; a bookmarks load holds the bookmarks it read
\* while refreshBookmarks awaits its fetches
Task(category, cacheKey, dataFile, step) ==
  [category |-> category, cacheKey |-> cacheKey, dataFile |-> dataFile, step |-> step,
   response |-> NoResponse, bookmarks |-> <<>>]

\* loadContent(category, subcategory)
loadContent(category, subcategory) ==
  LET cacheKey == IF build = "path" THEN category ELSE CacheKeyOf(category, subcategory)
      dataFile == IF build = "path" THEN CATEGORY_CONFIG[category].dataFile
                  ELSE DataFileOf(category, subcategory)
  IN tasks' = Append(tasks,
       IF category = "bookmarks" THEN Task(category, cacheKey, dataFile, "bookmarksTimer")
       ELSE IF dataCache_isValid(dataCache, cacheKey, clock)
       THEN Task(category, cacheKey, dataFile, "cachedTimer")
       ELSE Task(category, cacheKey, dataFile, "fetchTimer"))

\* Router.executeRoute(route, path) for the route getRoute(path) returns. A
\* value that is no route has no title: scrambleText reads the length of
\* undefined and throws after updateActiveLink cleared the links; the date
\* filter reset, the handler and the document title are not reached.
executeRoute(path) ==
  IF path \in DOMAIN Routes(build)
  THEN /\ path = "bookmarks" =>
            Cardinality({i \in 1..Len(tasks) : tasks[i].category = "bookmarks"}) < MaxRefreshes
       /\ page' = [activeLink |-> path, categoryText |-> getRoute(build, path).title,
                   title |-> getRoute(build, path).title \o " - MIDLOOP"]
       /\ currentDateFilter' = "all"
       /\ loadContent(Routes(build)[path].category, Routes(build)[path].subcategory)
       /\ uncaught' = FALSE
  ELSE /\ page' = [page EXCEPT !.activeLink = NoLink]
       /\ uncaught' = TRUE
       /\ UNCHANGED <<currentDateFilter, tasks>>

\* Router.executeRoute(route, path) of a configured route: the hash build
\* resets the date filter before the handler runs
ExecuteRoute(path) ==
  /\ path \in DOMAIN Routes(build)
  /\ Len(tasks) < MaxLoads
  /\ executeRoute(path)
  /\ navigated' = NoPath
  /\ UNCHANGED <<build, clock, dataCache, container, currentMoviesArray, unfilteredItemsArray>>
  /\ UNCHANGED <<adapterVars, storeVars, searchVars>>
  /\ UNCHANGED <<location, scrollTimers, hashchange, inputVars, viewVars>>

\* displayItems(filterItemsByDate(items, filter)) after unfilteredItemsArray
\* = items: the filter 'all' returns items itself, so that the hash build's
\* currentMoviesArray and unfilteredItemsArray are one array; any other
\* filter builds a new array
Shared(filter) == build = "hash" /\ filter = "all"

\* the 200 ms timer of the cached path
CachedTimerFires(i) ==
  /\ tasks[i].step = "cachedTimer"
  /\ LET cachedData == dataCache_get(dataCache, tasks[i].cacheKey)
     IN /\ unfilteredItemsArray' = IF build = "path" THEN unfilteredItemsArray ELSE cachedData
        /\ container' = displayItems(build,
                          filterItemsByDate(env, cachedData, currentDateFilter))
        /\ currentMoviesArray' = displayItems(build,
                          filterItemsByDate(env, cachedData, currentDateFilter)).cards
        /\ sameArray' = Shared(currentDateFilter)
  /\ tasks' = [tasks EXCEPT ![i].step = "shown"]
  /\ UNCHANGED <<build, clock, dataCache, currentDateFilter>>
  /\ UNCHANGED <<adapterVars, storeVars, searchVars, routerVars, inputVars, modal, resultRows>>

\* the 300 ms timer of the fetch path: fetch(dataFile)
FetchTimerFires(i) ==
  /\ tasks[i].step = "fetchTimer"
  /\ tasks' = [tasks EXCEPT ![i].step = "fetching"]
  /\ UNCHANGED <<build, clock, dataCache, container, currentMoviesArray, currentDateFilter, unfilteredItemsArray>>
  /\ UNCHANGED <<adapterVars, storeVars, searchVars, routerVars, inputVars, viewVars>>

\* the fetch settles and its then/catch chain runs
FetchSettles(i, response) ==
  /\ tasks[i].step = "fetching"
  /\ LET config == CATEGORY_CONFIG[tasks[i].category]
         normalizedData == IF response.kind = "ok"
                           THEN NormalizeData(env, config.adapter, response.data)
                           ELSE Thrown
     IN IF normalizedData = Thrown
        THEN /\ container' = LoadFailed(build, container)
             /\ tasks' = [tasks EXCEPT ![i].step = "failed", ![i].response = response]
             /\ UNCHANGED <<dataCache, unfilteredItemsArray, currentMoviesArray, sameArray>>
        ELSE /\ dataCache' = dataCache_set(dataCache, tasks[i].cacheKey, normalizedData, clock)
             /\ unfilteredItemsArray' = IF build = "path" THEN unfilteredItemsArray
                                        ELSE normalizedData
             /\ container' = displayItems(build,
                               filterItemsByDate(env, normalizedData, currentDateFilter))
             /\ currentMoviesArray' = displayItems(build,
                               filterItemsByDate(env, normalizedData, currentDateFilter)).cards
             /\ sameArray' = Shared(currentDateFilter)
             /\ tasks' = [tasks EXCEPT ![i].step = "loaded", ![i].response = response]
  /\ UNCHANGED <<build, clock, currentDateFilter>>
  /\ UNCHANGED <<adapterVars, storeVars, searchVars, routerVars, inputVars, modal, resultRows>>

\* applyDateFilter(filter): a click on a date filter button of the hash build
ApplyDateFilter(filter) ==
  /\ build = "hash"
  /\ currentDateFilter' = filter
  /\ container' = displayItems(build, filterItemsByDate(env, unfilteredItemsArray, filter))
  /\ currentMoviesArray' = displayItems(build, filterItemsByDate(env, unfilteredItemsArray, filter)).cards
  /\ sameArray' = Shared(filter)
  /\ UNCHANGED <<build, clock, dataCache, unfilteredItemsArray, tasks>>
  /\ UNCHANGED <<adapterVars, storeVars, searchVars, routerVars, inputVars, modal, resultRows>>

\* time passes until a cache entry is about to expire, or expires
Expiries ==
  {dataCache[k].timestamp + CACHE_DURATION - d : k \in {c \in CacheKeys : dataCache[c].has},
                                                   d \in {0, 1}}

Advance ==
  /\ \E t \in Expiries : t > clock /\ clock' = t
  /\ UNCHANGED <<build, dataCache, container, currentMoviesArray, currentDateFilter, unfilteredItemsArray, tasks>>
  /\ UNCHANGED <<adapterVars, storeVars, searchVars, routerVars, inputVars, viewVars>>

ContentRoutes == {"movies", "movies/past-week", "tv-shows", "games", "books", "music"}

NextLoad ==
  \/ \E path \in ContentRoutes : ExecuteRoute(path)
  \/ \E i \in 1..Len(tasks) : CachedTimerFires(i)
  \/ \E i \in 1..Len(tasks) : FetchTimerFires(i)
  \/ \E i \in 1..Len(tasks) :
       \E response \in Responses(tasks[i].dataFile) : FetchSettles(i, response)
  \/ \E filter \in {"all", "month", "week"} : ApplyDateFilter(filter)
  \/ Advance

\* loading the categories
SpecLoad == Init /\ [][NextLoad]_vars

(***************************************************************************)
(* Bookmarks: toggling, the bookmarks view with its refresh against live   *)
(* data, and the search index SearchModule.init loads.                     *)
(***************************************************************************)
\* bookmarkManager.toggle(item), from a card's or the modal's bookmark button
CallToggle(it) ==
  /\ FindIndex(getAll(localStorage), it.id) = 0 => Len(getAll(localStorage)) < MaxBookmarks
  /\ localStorage' = toggle(localStorage, it).store
  /\ toggled' = IF it.id \in toggled THEN toggled \ {it.id} ELSE toggled \cup {it.id}
  /\ call' = [fn |-> "toggle", args |-> <<it>>]
  /\ ret' = Bool(toggle(localStorage, it).added)
  /\ pc' = "returned"
  /\ UNCHANGED <<env, raw, item, validation, details, html, card>>
  /\ UNCHANGED <<loadVars, searchVars, routerVars, inputVars, viewVars>>

\* the 200 ms timer of loadContent('bookmarks'): an empty store shows the
\* empty state, otherwise refreshBookmarks starts its fetches
BookmarksTimerFires(i) ==
  /\ tasks[i].step = "bookmarksTimer"
  /\ LET bookmarks == getAll(localStorage)
     IN IF Len(bookmarks) = 0
        THEN /\ container' = LoadFailed(build, container)
             /\ tasks' = [tasks EXCEPT ![i].step = "shown"]
        ELSE /\ container' = container
             /\ tasks' = [tasks EXCEPT ![i].step = "refreshing", ![i].bookmarks = bookmarks]
  /\ UNCHANGED <<build, clock, dataCache, currentDateFilter, unfilteredItemsArray>>
  /\ UNCHANGED <<currentMoviesArray, adapterVars, storeVars, searchVars, routerVars, inputVars, viewVars>>

\* every fetch of refreshBookmarks has settled: the bookmarks are updated,
\* saved if one changed, sorted and displayed
RefreshSettles(i, responses) ==
  /\ tasks[i].step = "refreshing"
  /\ \E refreshed \in {refreshBookmarks(env, tasks[i].bookmarks, responses)} :
     \E bookmarks \in {SortByReleaseDate(refreshed.returned)} :
        /\ localStorage' = IF refreshed.hasUpdates THEN save(refreshed.returned)
                           ELSE localStorage
        /\ unfilteredItemsArray' = IF build = "path" THEN unfilteredItemsArray ELSE bookmarks
        /\ \E shown \in {IF build = "path" THEN bookmarks
                         ELSE filterItemsByDate(env, bookmarks, currentDateFilter)} :
              /\ container' = displayItems(build, shown)
              /\ currentMoviesArray' = shown
              /\ sameArray' = Shared(currentDateFilter)
        /\ call' = [fn |-> "refreshBookmarks", args |-> <<tasks[i].bookmarks, responses>>]
        /\ ret' = refreshed
  /\ tasks' = [tasks EXCEPT ![i].step = "refreshed", ![i].bookmarks = <<>>]
  /\ pc' = "returned"
  /\ UNCHANGED <<build, clock, dataCache, currentDateFilter, toggled>>
  /\ UNCHANGED <<env, raw, item, validation, details, html, card, searchVars, routerVars, inputVars, modal, resultRows>>

\* SearchModule.loadAllContent(), started by SearchModule.init: every data
\* file has answered
LoadAllContent(responses) ==
  /\ build = "hash"
  /\ searchLoad = "loading"
  /\ allItems' = loadAllContent(env, responses)
  /\ searchLoad' = "loaded"
  /\ call' = [fn |-> "loadAllContent", args |-> <<responses>>]
  /\ ret' = Undef
  /\ pc' = "returned"
  /\ UNCHANGED <<env, raw, item, validation, details, html, card>>
  /\ UNCHANGED <<storeVars, loadVars, routerVars, inputVars, viewVars>>

\* what the fetch of a data file may answer while the bookmarks are
\* refreshed or the search index is loaded
SourceAnswers(dataFile) ==
  CASE dataFile = "./shared-data/data_movies.json" ->
         {[kind |-> "rejected", data |-> <<>>], [kind |-> "ok", data |-> <<MovieA>>],
          [kind |-> "ok", data |-> <<MovieB, MovieA>>],
          [kind |-> "ok", data |-> <<MovieA, BadMovie>>]}
    [] dataFile = "./shared-data/data_movies_past_week.json" ->
         {[kind |-> "notOk", data |-> <<>>], [kind |-> "ok", data |-> <<MovieB>>]}
    [] dataFile = "./shared-data/data_tv_shows.json" ->
         {[kind |-> "rejected", data |-> <<>>], [kind |-> "ok", data |-> <<TypicalShow>>],
          [kind |-> "ok", data |-> <<SameIdShow>>],
          [kind |-> "ok", data |-> <<TypicalShow, BadShow>>]}
    [] dataFile = "./shared-data/data_games.json" ->
         {[kind |-> "notOk", data |-> <<>>], [kind |-> "ok", data |-> <<TypicalGame>>],
          [kind |-> "ok", data |-> <<Null>>]}
    [] dataFile = "./shared-data/data_books.json" ->
         {[kind |-> "notOk", data |-> <<>>], [kind |-> "ok", data |-> <<PlaceholderRecord>>]}
    [] OTHER -> {[kind |-> "notArray", data |-> <<>>]}

\* one answer for each category refreshBookmarks fetches
RefreshResponses ==
  {("movies" :> m) @@ ("tv-shows" :> t) @@ ("games" :> g) @@ ("books" :> b)
     @@ ("music" :> mu) :
     m \in SourceAnswers(CATEGORY_CONFIG["movies"].dataFile),
     t \in SourceAnswers(CATEGORY_CONFIG["tv-shows"].dataFile),
     g \in SourceAnswers(CATEGORY_CONFIG["games"].dataFile),
     b \in SourceAnswers(CATEGORY_CONFIG["books"].dataFile),
     mu \in SourceAnswers(CATEGORY_CONFIG["music"].dataFile)}

\* one answer for each data file loadAllContent loads
SearchResponses ==
  {<<r1, r2, r3, r4, r5, r6>> :
     r1 \in SourceAnswers(SearchDataFiles[1].dataFile),
     r2 \in SourceAnswers(SearchDataFiles[2].dataFile),
     r3 \in SourceAnswers(SearchDataFiles[3].dataFile),
     r4 \in SourceAnswers(SearchDataFiles[4].dataFile),
     r5 \in SourceAnswers(SearchDataFiles[5].dataFile),
     r6 \in SourceAnswers(SearchDataFiles[6].dataFile)}

\* the items whose bookmark button the user may press: normalised records
\* of the data files, one of them as an earlier version of its file had it
StaleMovieA == [MovieA EXCEPT !.vote_average = Num(5)]

BookmarkItems ==
  {normalizeMovie(MovieA), normalizeMovie(StaleMovieA),
   normalizeTVShow(DefaultEnv, TypicalShow), normalizeTVShow(DefaultEnv, SameIdShow),
   normalizeGame(TypicalGame)}

\* more items: another movie, a record of the books file, a movie without
\* an id, and a game whose slug reads like the id of a movie
ToggleItems ==
  BookmarkItems
  \cup {normalizeMovie(MovieB), PlaceholderRecord,
        normalizeMovie([MovieB EXCEPT !.id = Undef]),
        normalizeGame([TypicalGame EXCEPT !.slug = Str(<<"1">>)])}

NextToggle == \E it \in ToggleItems : CallToggle(it)

\* a store that only bookmarkManager.toggle writes
SpecToggle == Init /\ [][NextToggle]_vars

\* the bookmarks and the search index share no state: a run either loads
\* the index or works on the bookmarks
NextBookmarks ==
  \/ \E responses \in SearchResponses :
       pc = "idle" /\ tasks = <<>> /\ LoadAllContent(responses)
  \/ \E it \in BookmarkItems : searchLoad # "loaded" /\ CallToggle(it)
  \/ searchLoad # "loaded" /\ ExecuteRoute("bookmarks")
  \/ \E i \in 1..Len(tasks) : searchLoad # "loaded" /\ BookmarksTimerFires(i)
  \/ \E i \in 1..Len(tasks), responses \in RefreshResponses :
       searchLoad # "loaded" /\ RefreshSettles(i, responses)

\* the bookmarks, their view and the search index
SpecBookmarks == Init /\ [][NextBookmarks]_vars

(***************************************************************************)
(* Router: navigation from links, from the page URL at load, and from the   *)
(* browser's history.                                                      *)
(***************************************************************************)
\* Router.navigate(path, {skipHistory}) called with the page at loc and a
\* hashchange event queued or not; scrolls is shouldScrollToTop(), which
\* defers executeRoute to the scroll timer
navigate(loc, queued, path, skipHistory, scrolls) ==
  LET valid == IF isValidRoute(build, path) THEN path ELSE defaultRoute
      pushed == IF skipHistory THEN loc ELSE Pushed(build, loc, valid)
  IN /\ navigated' = path
     /\ location' = pushed
     /\ hashchange' = (queued \/ pushed.hash # loc.hash)
     /\ IF scrolls
        THEN /\ scrollTimers' = Append(scrollTimers, valid)
             /\ uncaught' = FALSE
             /\ UNCHANGED <<page, currentDateFilter, tasks>>
        ELSE /\ scrollTimers' = scrollTimers
             /\ executeRoute(valid)
     /\ UNCHANGED <<build, clock, dataCache, container, currentMoviesArray, unfilteredItemsArray>>
     /\ UNCHANGED <<adapterVars, storeVars, searchVars, inputVars, viewVars>>

\* Router.handleInitialLoad() on DOMContentLoaded, for the page URL and the
\* redirect 404.html may have left in sessionStorage (path build); the hash
\* build gives a URL without hash the hash of its route
HandleInitialLoad(url, redirect, scrolls) ==
  /\ navigated = NotLoaded
  /\ IF build = "path" /\ redirect # <<>>
     THEN navigate([url EXCEPT !.pathname = redirect], FALSE,
                   redirect[Len(redirect)], TRUE, scrolls)
     ELSE /\ build = "hash" \/ redirect = <<>>
          /\ LET initialRoute == getCurrentRoute(build, url)
                 normalized == IF build = "hash" /\ url.hash \in {"", "#/", "#"}
                               THEN [url EXCEPT !.hash = "#/" \o initialRoute]
                               ELSE url
             IN navigate(normalized, normalized.hash # url.hash, initialRoute, TRUE, scrolls)

\* Router.navigate(path), as a navigation link's click calls it
Navigate(path, scrolls) ==
  /\ navigated # NotLoaded
  /\ Len(tasks) + Len(scrollTimers) < MaxLoads
  /\ navigate(location, hashchange, path, FALSE, scrolls)

\* the popstate listener of the path build: back or forward to url
PopState(url, scrolls) ==
  /\ build = "path"
  /\ navigated # NotLoaded
  /\ Len(tasks) + Len(scrollTimers) < MaxLoads
  /\ navigate(url, hashchange, getCurrentRoute(build, url), TRUE, scrolls)

\* the hashchange listener of the hash build
HashChange(scrolls) ==
  /\ build = "hash"
  /\ navigated # NotLoaded
  /\ hashchange
  /\ Len(tasks) + Len(scrollTimers) < MaxNavigations
  /\ navigate(location, FALSE, getCurrentRoute(build, location), TRUE, scrolls)

\* the scrollDuration timer of Router.scrollToTop: executeRoute(route, path)
ScrollTimerFires ==
  /\ scrollTimers # <<>>
  /\ executeRoute(Head(scrollTimers))
  /\ scrollTimers' = Tail(scrollTimers)
  /\ navigated' = NoPath
  /\ UNCHANGED <<location, hashchange>>
  /\ UNCHANGED <<build, clock, dataCache, container, currentMoviesArray, unfilteredItemsArray>>
  /\ UNCHANGED <<adapterVars, storeVars, searchVars, inputVars, viewVars>>

\* pathnames of the page, as their non-empty segments
Pathnames ==
  {<<>>, <<"games">>, <<"repo", "tv-shows">>, <<"unknown">>, <<"repo", "unknown">>,
   <<"constructor">>, <<"index.html">>}

Urls == {[pathname |-> p, hash |-> h] : p \in Pathnames, h \in {"", "#/games"}}

\* paths navigate is called with: routes, unknown names, the empty string
\* and names every object inherits
Paths == {"movies", "movies/past-week", "bookmarks", "", "unknown", "toString", "__proto__"}

NextRouter ==
  \/ \E url \in Urls, redirect \in {<<>>, <<"repo", "games">>, <<"repo", "unknown">>},
        scrolls \in BOOLEAN : HandleInitialLoad(url, redirect, scrolls)
  \/ \E path \in Paths, scrolls \in BOOLEAN : Navigate(path, scrolls)
  \/ \E url \in Urls, scrolls \in BOOLEAN : PopState(url, scrolls)
  \/ \E scrolls \in BOOLEAN : HashChange(scrolls)
  \/ ScrollTimerFires

\* the router
SpecRouter == Init /\ [][NextRouter]_vars

(***************************************************************************)
(* The search box of the hash build: input events are debounced.           *)
(***************************************************************************)
\* the input listener: the pending timer is cleared and a new one is set,
\* whose callback keeps the query of this event
Input(query) ==
  /\ build = "hash"
  /\ Len(inputEvents) < MaxInputs
  /\ inputEvents' = Append(inputEvents, [at |-> clock, query |-> query])
  /\ searchTimers' = Append(clearTimeout(searchTimers, searchTimeout),
                             [id |-> Len(inputEvents) + 1, due |-> clock + SearchDebounce,
                              query |-> query])
  /\ searchTimeout' = Len(inputEvents) + 1
  /\ UNCHANGED <<displayCalls, searchResults>>
  /\ UNCHANGED <<adapterVars, storeVars, loadVars, searchVars, routerVars, viewVars>>

\* a timer of the search box is due: displayResults(query, ...) hides the
\* dropdown for a blank query and shows the results of the query otherwise
SearchTimerFires(i) ==
  /\ searchTimers[i].due <= clock
  /\ displayCalls' = Append(displayCalls, [id |-> searchTimers[i].id, at |-> clock,
                                           query |-> searchTimers[i].query])
  /\ IF Trim(searchTimers[i].query) = <<>>
     THEN /\ searchResults' = [searchResults EXCEPT !.active = FALSE]
          /\ resultRows' = resultRows
     ELSE IF searchThrows(allItems, searchTimers[i].query)
     THEN UNCHANGED <<searchResults, resultRows>>
     ELSE /\ searchResults' = [active |-> TRUE, query |-> searchTimers[i].query]
          /\ resultRows' = search(allItems, searchTimers[i].query)
  /\ searchTimers' = clearTimeout(searchTimers, searchTimers[i].id)
  /\ UNCHANGED <<searchTimeout, inputEvents>>
  /\ UNCHANGED <<adapterVars, storeVars, loadVars, searchVars, routerVars, modal, sameArray>>

\* time passes; it stops at MaxClock once every pending timer is due
Tick ==
  /\ clock < MaxClock \/ \E i \in 1..Len(searchTimers) : searchTimers[i].due > clock
  /\ clock' = clock + TickMs
  /\ UNCHANGED <<build, dataCache, container, currentMoviesArray, currentDateFilter, unfilteredItemsArray, tasks>>
  /\ UNCHANGED <<adapterVars, storeVars, searchVars, routerVars, inputVars, viewVars>>

Queries == {<<" ">>, <<"a">>, <<"a", "b">>}

NextSearch ==
  \/ \E query \in Queries : Input(query)
  \/ \E i \in 1..Len(searchTimers) : SearchTimerFires(i)
  \/ Tick

\* the search box; a due timer runs and time passes
SpecSearch ==
  /\ Init /\ [][NextSearch]_vars
  /\ WF_vars(\E i \in 1..Len(searchTimers) : SearchTimerFires(i))
  /\ WF_vars(Tick)

(***************************************************************************)
(* The grid and the detail modal: a card's bookmark button, the modal's    *)
(* bookmark button, previous/next, and a click on a search result.  Each   *)
(* card keeps the item and the index displayItems created it with.         *)
(***************************************************************************)
\* array[i] for a JavaScript index i
At(array, i) == IF i >= 0 /\ i < Len(array) THEN array[i + 1] ELSE Undef

\* array.splice(itemIndex, 1) after findIndex(m => m.id === id)
SpliceById(array, id) ==
  IF FindIndex(array, id) = 0 THEN array ELSE Splice(array, FindIndex(array, id))

\* showItemDetails(item, index): reading item.metadata of undefined throws
\* before the modal is touched; otherwise the modal shows the item and
\* keeps the index in data-current-index
showItemDetails(it, index) ==
  /\ pc' = "returned"
  /\ IF it = Undef
     THEN ret' = Thrown /\ modal' = modal
     ELSE /\ ret' = Undef
          /\ modal' = [modal EXCEPT !.display = "flex", !.item = it, !.currentIndex = index]
  /\ UNCHANGED <<env, raw, item, validation, details, html, card>>

\* CardComponents.handleCardClick(item, index) of card k
HandleCardClick(k) ==
  /\ modal.display = "none"
  /\ container.slots[k].removing = "no"
  /\ call' = [fn |-> "handleCardClick", args |-> <<container.cards[k]>>]
  /\ showItemDetails(container.cards[k], container.slots[k].index)
  /\ UNCHANGED <<storeVars, loadVars, searchVars, routerVars, inputVars, sameArray, resultRows>>

\* CardComponents.handleBookmarkClick(item, button) of card k: on the
\* bookmarks route a removal splices currentMoviesArray, and with it
\* unfilteredItemsArray when both name one array, and starts the removal of
\* the card
HandleBookmarkClick(k) ==
  /\ modal.display = "none"
  /\ container.slots[k].removing = "no"
  /\ \E it \in {container.cards[k]} :
     \E toggling \in {toggle(localStorage, it)} :
       /\ toggling.added => Len(getAll(localStorage)) < MaxBookmarks
       /\ localStorage' = toggling.store
       /\ toggled' = IF it.id \in toggled THEN toggled \ {it.id} ELSE toggled \cup {it.id}
       /\ call' = [fn |-> "handleBookmarkClick", args |-> <<it>>]
       /\ ret' = Bool(toggling.added)
       /\ IF getCurrentRoute(build, location) = "bookmarks" /\ ~toggling.added
          THEN /\ currentMoviesArray' = SpliceById(currentMoviesArray, it.id)
               /\ unfilteredItemsArray' = IF sameArray
                                          THEN SpliceById(unfilteredItemsArray, it.id)
                                          ELSE unfilteredItemsArray
               /\ container' = [container EXCEPT !.slots[k].removing = "card"]
          ELSE UNCHANGED <<currentMoviesArray, unfilteredItemsArray, container>>
  /\ pc' = "returned"
  /\ UNCHANGED <<env, raw, item, validation, details, html, card>>
  /\ UNCHANGED <<build, clock, dataCache, currentDateFilter, tasks>>
  /\ UNCHANGED <<searchVars, routerVars, inputVars, viewVars>>

\* document.querySelector(`.content-card[data-item-id="${id}"]`): the first
\* card whose attribute reads as the id does, 0 for null
CardOfId(cards, id) ==
  IF \E k \in 1..Len(cards) : JsToString(cards[k].id) = JsToString(id)
  THEN CHOOSE k \in 1..Len(cards) :
         /\ JsToString(cards[k].id) = JsToString(id)
         /\ \A j \in 1..(k - 1) : JsToString(cards[j].id) # JsToString(id)
  ELSE 0

\* the grid without its card k
WithoutCard(box, k) ==
  [box EXCEPT !.cards = Splice(box.cards, k), !.slots = Splice(box.slots, k)]

\* the 300 ms timer of removeCardWithAnimation: card.remove() and
\* checkEmptyBookmarks()
CardRemovalTimerFires(k) ==
  /\ container.slots[k].removing = "card"
  /\ container' = [WithoutCard(container, k) EXCEPT
                     !.display = IF Len(container.cards) = 1 THEN "none" ELSE @]
  /\ UNCHANGED <<build, clock, dataCache, currentMoviesArray, currentDateFilter,
                 unfilteredItemsArray, tasks>>
  /\ UNCHANGED <<adapterVars, storeVars, searchVars, routerVars, inputVars, viewVars>>

\* the click listener showItemDetails put on the modal's bookmark button: on
\* the bookmarks route a removal fades the modal out, splices
\* currentMoviesArray and leaves the card of the item's id to the timers
ModalBookmarkClick ==
  /\ modal.display = "flex"
  /\ ~modal.fading
  /\ \E it \in {modal.item} :
     \E toggling \in {toggle(localStorage, it)} :
       /\ toggling.added => Len(getAll(localStorage)) < MaxBookmarks
       /\ localStorage' = toggling.store
       /\ toggled' = IF it.id \in toggled THEN toggled \ {it.id} ELSE toggled \cup {it.id}
       /\ call' = [fn |-> "modalBookmarkClick", args |-> <<it>>]
       /\ ret' = Bool(toggling.added)
       /\ IF getCurrentRoute(build, location) = "bookmarks" /\ ~toggling.added
          THEN /\ modal' = [modal EXCEPT !.fading = TRUE]
               /\ currentMoviesArray' = SpliceById(currentMoviesArray, it.id)
               /\ unfilteredItemsArray' = IF sameArray
                                          THEN SpliceById(unfilteredItemsArray, it.id)
                                          ELSE unfilteredItemsArray
               /\ container' =
                    IF CardOfId(container.cards, it.id) = 0 THEN container
                    ELSE [container EXCEPT
                            !.slots[CardOfId(container.cards, it.id)].removing = "modalFade"]
          ELSE UNCHANGED <<modal, currentMoviesArray, unfilteredItemsArray, container>>
  /\ pc' = "returned"
  /\ UNCHANGED <<env, raw, item, validation, details, html, card>>
  /\ UNCHANGED <<build, clock, dataCache, currentDateFilter, tasks>>
  /\ UNCHANGED <<searchVars, routerVars, inputVars, sameArray, resultRows>>

\* the 300 ms timer of the modal's fade: the modal is hidden and the card
\* starts to fade
ModalFadeTimerFires ==
  /\ modal.fading
  /\ modal' = [modal EXCEPT !.display = "none", !.fading = FALSE]
  /\ container' = [container EXCEPT
                     !.slots = [k \in 1..Len(container.slots) |->
                                  IF container.slots[k].removing = "modalFade"
                                  THEN [container.slots[k] EXCEPT !.removing = "modal"]
                                  ELSE container.slots[k]]]
  /\ UNCHANGED <<build, clock, dataCache, currentMoviesArray, currentDateFilter,
                 unfilteredItemsArray, tasks>>
  /\ UNCHANGED <<adapterVars, storeVars, searchVars, routerVars, inputVars, sameArray, resultRows>>

\* the 300 ms timer of that card's fade: gridCard.remove(), and the empty
\* state when currentMoviesArray is empty
ModalCardTimerFires(k) ==
  /\ container.slots[k].removing = "modal"
  /\ container' = IF Len(currentMoviesArray) = 0
                  THEN [container EXCEPT !.cards = <<>>, !.slots = <<>>]
                  ELSE WithoutCard(container, k)
  /\ UNCHANGED <<build, clock, dataCache, currentMoviesArray, currentDateFilter,
                 unfilteredItemsArray, tasks>>
  /\ UNCHANGED <<adapterVars, storeVars, searchVars, routerVars, inputVars, viewVars>>

\* the click listener of the previous button, also clicked by ArrowLeft
ModalPrev ==
  /\ modal.display = "flex"
  /\ \E newIndex \in {IF modal.currentIndex > 0 THEN modal.currentIndex - 1
                       ELSE Len(currentMoviesArray) - 1} :
       /\ call' = [fn |-> "prev", args |-> <<At(currentMoviesArray, newIndex), Num(newIndex)>>]
       /\ showItemDetails(At(currentMoviesArray, newIndex), newIndex)
  /\ UNCHANGED <<storeVars, loadVars, searchVars, routerVars, inputVars, sameArray, resultRows>>

\* the click listener of the next button, also clicked by ArrowRight
ModalNext ==
  /\ modal.display = "flex"
  /\ \E newIndex \in {IF modal.currentIndex < Len(currentMoviesArray) - 1
                       THEN modal.currentIndex + 1 ELSE 0} :
       /\ call' = [fn |-> "next", args |-> <<At(currentMoviesArray, newIndex), Num(newIndex)>>]
       /\ showItemDetails(At(currentMoviesArray, newIndex), newIndex)
  /\ UNCHANGED <<storeVars, loadVars, searchVars, routerVars, inputVars, sameArray, resultRows>>

\* closeModal(): the close button, a click on the backdrop, Escape
CloseModal ==
  /\ modal.display = "flex"
  /\ modal' = [modal EXCEPT !.display = "none"]
  /\ UNCHANGED <<adapterVars, storeVars, loadVars, searchVars, routerVars, inputVars,
                 sameArray, resultRows>>

\* i.id == itemId for the text itemId of a data-item-id attribute: a numeric
\* id equals the text that reads as its decimal form, a string id the equal
\* text (the attributes here are written from ids of allItems)
LooseEquals(id, itemId) == JsToString(id) = itemId

\* array.findIndex(i => i.id == itemId), 0 for -1
FindLoose(array, itemId) ==
  IF \E i \in 1..Len(array) : LooseEquals(array[i].id, itemId)
  THEN CHOOSE i \in 1..Len(array) :
         /\ LooseEquals(array[i].id, itemId)
         /\ \A j \in 1..(i - 1) : ~LooseEquals(array[j].id, itemId)
  ELSE 0

\* the click listener displayResults put on row k of the dropdown
ClickResult(k) ==
  /\ searchResults.active
  /\ modal.display = "none"
  /\ k \in 1..Len(resultRows)
  /\ \E itemId \in {JsToString(resultRows[k].id)} :
     \E found \in {FindLoose(allItems, itemId)} :
     \E itemIndex \in {FindLoose(currentMoviesArray, itemId) - 1} :
       /\ call' = [fn |-> "searchResultClick", args |-> <<resultRows[k]>>]
       /\ IF found = 0
          THEN /\ pc' = "returned"
               /\ ret' = Undef
               /\ UNCHANGED <<env, raw, item, validation, details, html, card>>
               /\ UNCHANGED <<modal, searchResults>>
          ELSE /\ showItemDetails(allItems[found], IF itemIndex >= 0 THEN itemIndex ELSE 0)
               /\ searchResults' = IF ret' = Thrown THEN searchResults
                                   ELSE [searchResults EXCEPT !.active = FALSE]
  /\ UNCHANGED <<searchTimeout, searchTimers, inputEvents, displayCalls>>
  /\ UNCHANGED <<storeVars, loadVars, searchVars, routerVars, sameArray, resultRows>>

\* the items bookmarked in earlier visits, and what the data files answer
\* when the bookmarks view refreshes them
ViewItems ==
  {normalizeMovie(MovieA), normalizeMovie(MovieB), normalizeTVShow(DefaultEnv, SameIdShow)}

ViewResponses ==
  {responses \in RefreshResponses :
     /\ responses["movies"].kind = "rejected" \/ responses["movies"].data = <<MovieB, MovieA>>
     /\ responses["tv-shows"].kind = "rejected"
     /\ responses["games"].kind = "notOk"
     /\ responses["books"].kind = "notOk"}

\* the page opened at /bookmarks
BookmarksUrl == [pathname |-> <<"bookmarks">>, hash |-> ""]

NextView ==
  \/ \E it \in ViewItems : navigated = NotLoaded /\ CallToggle(it)
  \/ HandleInitialLoad(BookmarksUrl, <<>>, FALSE)
  \/ \E i \in 1..Len(tasks) : BookmarksTimerFires(i)
  \/ \E i \in 1..Len(tasks), responses \in ViewResponses : RefreshSettles(i, responses)
  \/ \E filter \in {"all", "month", "week"} : ApplyDateFilter(filter)
  \/ \E k \in 1..Len(container.cards) : HandleCardClick(k)
  \/ \E k \in 1..Len(container.cards) : HandleBookmarkClick(k)
  \/ \E k \in 1..Len(container.cards) : CardRemovalTimerFires(k)
  \/ ModalBookmarkClick
  \/ ModalFadeTimerFires
  \/ \E k \in 1..Len(container.cards) : ModalCardTimerFires(k)
  \/ ModalPrev
  \/ ModalNext
  \/ CloseModal

\* the bookmarks view with its cards and the detail modal
SpecView == Init /\ [][NextView]_vars

\* what the data files answer when the search index is loaded
IndexResponses ==
  {responses \in SearchResponses :
     /\ responses[1].kind = "ok"
     /\ responses[2].kind = "notOk"
     /\ responses[3].kind = "ok"
     /\ responses[4].kind = "ok" /\ responses[4].data # <<Null>>
     /\ responses[5].kind = "notOk"}

NextSearchClick ==
  \/ \E responses \in IndexResponses : LoadAllContent(responses)
  \/ \E query \in {<<"x">>, <<"y">>} : searchLoad = "loaded" /\ Input(query)
  \/ \E i \in 1..Len(searchTimers) : SearchTimerFires(i)
  \/ Tick
  \/ \E k \in 1..MaxSearchResults : ClickResult(k)
  \/ CloseModal

\* the search box over a loaded index, and the modal its results open
SpecSearchClick == Init /\ [][NextSearchClick]_vars

(***************************************************************************)
(* Properties                                                              *)
(***************************************************************************)
AdapterReturned == pc = "item" /\ item # Thrown
ItemType == item.metadata.props.type.s[1]

\* C1: for every raw record the item an adapter returns has a rating that is
\* null or a number r with 0 <= r <= ratingMax.
C1_RatingInRange ==
  (pc \in {"item", "modal"} /\ item # Thrown) =>
    \/ item.rating = Null
    \/ /\ IsNumber(item.rating)
       /\ 0 <= item.rating.n
       /\ item.rating.n <= item.ratingMax

\* the raw record carries no title (for a show: neither title nor name)
CarriesNoTitle ==
  CASE ItemType = "movie" -> raw.title = Undef
    [] ItemType = "tv-show" -> raw.title = Undef /\ raw.name = Undef
    [] ItemType = "game" -> raw.name = Undef

\* C2: when the raw record carries no title, the title of the item is "Untitled",
\* for each of the three adapters.
C2_UntitledDefault ==
  (AdapterReturned /\ CarriesNoTitle) => item.title = Str(<<"Untitled">>)

\* an ISO-8601 date string: a full timestamp or a calendar date
IsIsoDateString(v) == v.t = "string" /\ v.s \in {<<"ISO">>, <<"DATE">>}

\* C3: for every raw record and adapter the item's releaseDate is null or a valid
\* ISO-8601 date string; an unparseable date never reaches it unchanged.
C3_ReleaseDateIsoOrNull ==
  AdapterReturned => (item.releaseDate = Null \/ IsIsoDateString(item.releaseDate))

\* an entry the game lists are said to tolerate: a non-empty string, or an
\* object with a non-empty name
TolerableEntry(v) ==
  \/ v.t = "string" /\ v.s # <<>>
  \/ v.t = "object" /\ v.hasName /\ v.name.t = "string" /\ v.name.s # <<>>

TolerableList(v) ==
  v.t = "array" /\ \A i \in 1..Len(v.items) : TolerableEntry(v.items[i])

EntryName(v) == IF v.t = "string" THEN v ELSE v.name

\* C4: for a game whose platforms, developers, publishers or game_modes list
\* holds only non-empty strings and objects with a non-empty name, the metadata
\* list holds one name per entry, in order.
C4_GameListsKeepEveryEntry ==
  (AdapterReturned /\ ItemType = "game") =>
    \A f \in {<<"platforms", "platforms">>, <<"developers", "developers">>,
              <<"publishers", "publishers">>, <<"game_modes", "gameModes">>} :
      TolerableList(raw[f[1]]) =>
        item.metadata.props[f[2]] = Arr(MapSeq(raw[f[1]].items, EntryName))

IsCall(fn) == pc = "returned" /\ call.fn = fn

\* the local calendar day of a date value lies strictly before today's
\* (a date-only string denotes midnight UTC, so west of Greenwich its local
\* day is the day before the one written)
DayBeforeToday(v) ==
  NewDate(v).valid /\ LocalDay(env, NewDate(v).h) < LocalDay(env, env.now)

\* C5: getTVShowDisplayDate(firstAir, nextEp) is nextEp (or null) when firstAir is
\* absent; otherwise it is nextEp exactly when firstAir's calendar day is
\* strictly before today and nextEp is present, and firstAir in every other case.
C5_TVShowDisplayDate ==
  IsCall("getTVShowDisplayDate") =>
    LET firstAir == call.args[1]
        nextEp == call.args[2]
    IN ret = IF ~Truthy(firstAir) THEN (IF Truthy(nextEp) THEN nextEp ELSE Null)
             ELSE IF DayBeforeToday(firstAir) /\ Truthy(nextEp) THEN nextEp
             ELSE firstAir

\* a show first aired on an earlier day with a next episode shows the next
\* episode, in a zone whose clocks change between the two days
C5_Witness ==
  /\ IsCall("getTVShowDisplayDate")
  /\ IsIsoDateString(call.args[1])
  /\ DayBeforeToday(call.args[1])
  /\ env.shift # 0
  /\ ret = Tomorrow
  /\ ret # call.args[1]

\* the number of calendar days from today to the day of a date value
DaysFromToday(v) == LocalDay(env, NewDate(v).h) - LocalDay(env, env.now)

\* C6: for every release date d, getCountdownStatus(d).isCountdown is true iff
\* the number of days from today's midnight to d's midnight is between 1 and 7,
\* daysUntil being a day count; for null or undefined the result is
\* {daysUntil: null, isCountdown: false}.
C6_CountdownIffOneToSevenDays ==
  IsCall("getCountdownStatus") =>
    LET d == call.args[1]
    IN /\ d \in {Null, Undef} => ret = [daysUntil |-> Null, isCountdown |-> FALSE]
       /\ IsIsoDateString(d) =>
            /\ ret.isCountdown = (DaysFromToday(d) \in 1..7)
            /\ IsNumber(ret.daysUntil)

\* C7: for every input normalizeGenres returns a list whose every entry is a
\* non-empty genre-name string.
C7_GenresAreNames ==
  IsCall("normalizeGenres") =>
    /\ ret # Thrown
    /\ ret.t = "array"
    /\ \A i \in 1..Len(ret.items) : ret.items[i].t = "string" /\ ret.items[i].s # <<>>

\* C8: validateMetadata returns isValid=false with an error when the type has no
\* schema, when metadata is missing or no object, or when the required field
\* type is absent; a field outside required and optional only adds a warning;
\* type with any subset of the optional fields gives no errors and no warnings.
C8_ValidateMetadata ==
  IsCall("validateMetadata") =>
    LET metadata == call.args[1]
        type == call.args[2].s[1]
        hasSchema == type \in DOMAIN MetadataSchemas
        isObject == metadata.t \in {"object", "array"}
        keys == OwnKeys(metadata)
        allowed == Range(MetadataSchemas[type].required)
                     \cup Range(MetadataSchemas[type].optional)
    IN /\ ~ret.threw
       /\ (~hasSchema \/ ~isObject \/ "type" \notin keys) =>
            (~ret.isValid /\ Len(ret.errors) >= 1)
       /\ (hasSchema /\ isObject /\ "type" \in keys) =>
            /\ ret.isValid
            /\ ret.errors = <<>>
            /\ ret.warnings # {} <=> ~(keys \subseteq allowed)

\* the record holds, for each field, its typical value or nothing
OnlyPresence(r, typical) == \A f \in DOMAIN r : r[f] \in {Undef, typical[f]}

\* the content type of the adapter that ran
AdapterType == IF pc = "item" THEN call.fn ELSE ItemType

\* the raw record is of the family "every subset of optional fields present"
PresenceRecord ==
  CASE AdapterType = "movie" -> OnlyPresence(raw, TypicalMovie)
    [] AdapterType = "tv-show" -> OnlyPresence(raw, TypicalShow)
    [] AdapterType = "game" -> OnlyPresence(raw, TypicalGame)

\* C9: for every subset of a type's optional raw fields present or absent, the
\* adapter and then the matching renderer complete without throwing, and the
\* rows returned hold strings.
C9_AdaptThenRenderNeverThrows ==
  /\ (pc = "item" /\ PresenceRecord) =>
       (item # Thrown /\ HasRenderer(item.metadata.props.type))
  /\ (pc = "modal" /\ PresenceRecord) =>
       /\ ~details.threw
       /\ \A i \in 1..Len(details.rows) : details.rows[i].value.t = "string"

\* a show with every optional field present was adapted and rendered
C9_Witness ==
  /\ pc = "modal"
  /\ raw = TypicalShow
  /\ ~details.threw
  /\ Len(details.rows) >= 6

\* C10: every source-derived string in the modal's markup went through
\* sanitizeHTML, or is the href of an anchor and went through URL validation;
\* no raw field is inserted as HTML.
C10_NoRawFieldInMarkup ==
  pc = "modal" => \A i \in 1..Len(html) : html[i].via # "raw"

\* C11: every field of the item that the card markup embeds went through
\* sanitizeHTML or sanitizeURL; no item field is interpolated raw.
C11_NoRawFieldInCard ==
  pc = "card" => \A i \in 1..Len(card) : card[i].via # "raw"

\* the step is task i passing from one step of its load to another
Passes(i, from, to) == tasks[i].step = from /\ tasks'[i].step = to

EntryOf(t) == dataCache[t.cacheKey]

\* a load fetches iff the cache holds no entry for its key or the entry is at
\* least five minutes old, and only such a load ever issues a fetch
FetchIffStale ==
  /\ Len(tasks') = Len(tasks) + 1 =>
       LET t == tasks'[Len(tasks')]
       IN (t.step = "fetchTimer") <=>
            (~EntryOf(t).has \/ clock - EntryOf(t).timestamp >= CACHE_DURATION)
  /\ \A i \in 1..Len(tasks) :
       (tasks'[i].step = "fetching" /\ tasks[i].step # "fetching")
         => tasks[i].step = "fetchTimer"

\* the cached path leaves the cache as it is
CachedLeavesCache ==
  \A i \in 1..Len(tasks) : Passes(i, "cachedTimer", "shown") => dataCache' = dataCache

\* the cached path shows the cached list
CachedShowsExactly ==
  \A i \in 1..Len(tasks) :
    Passes(i, "cachedTimer", "shown") => container'.cards = EntryOf(tasks[i]).data

\* the cached path shows the cached list as the current date filter filters it
CachedShowsFiltered ==
  \A i \in 1..Len(tasks) :
    Passes(i, "cachedTimer", "shown") =>
      container'.cards = filterItemsByDate(env, EntryOf(tasks[i]).data, currentDateFilter)

\* a successful fetch replaces the entry of its key by the normalised
\* response, stamped with the time of the response
FetchReplacesEntry ==
  \A i \in 1..Len(tasks) :
    Passes(i, "fetching", "loaded") =>
      LET t == tasks'[i]
          adapter == CATEGORY_CONFIG[t.category].adapter
      IN /\ dataCache'[t.cacheKey] =
              [has |-> TRUE, timestamp |-> clock,
               data |-> [j \in 1..Len(t.response.data) |->
                           ApplyAdapter(env, adapter, t.response.data[j])]]
         /\ \A k \in CacheKeys \ {t.cacheKey} : dataCache'[k] = dataCache[k]

\* C12 (as stated): loadContent fetches iff the cache holds no entry for the
\* key or the entry is at least five minutes old; for a younger entry the
\* grid shows exactly the cached list and the cache is left unchanged; a
\* successful fetch replaces the entry and resets its timestamp.
C12_CachedListShownExactly ==
  [][FetchIffStale /\ CachedLeavesCache /\ CachedShowsExactly /\ FetchReplacesEntry]_vars

\* C12 (amended): as above, but for a younger entry the grid shows the cached
\* list as filtered by the current date filter: the whole list under 'all',
\* the only filter of the build without a date filter.
C12_CachedListShownFiltered ==
  [][FetchIffStale /\ CachedLeavesCache /\ CachedShowsFiltered /\ FetchReplacesEntry]_vars

\* a cached list was shown under the 'week' filter, which dropped part of it
C12_Witness ==
  \E i \in 1..Len(tasks) :
    /\ tasks[i].step = "shown"
    /\ currentDateFilter = "week"
    /\ container.cards # <<>>
    /\ container.cards # dataCache[tasks[i].cacheKey].data
    /\ container.cards =
         filterItemsByDate(env, dataCache[tasks[i].cacheKey].data, currentDateFilter)

\* the load of task t failed: the fetch rejected, the response was not ok,
\* or the adapter threw on one of the records
LoadFails(t) ==
  \/ t.response.kind \in {"rejected", "notOk"}
  \/ /\ t.response.kind = "ok"
     /\ \E j \in 1..Len(t.response.data) :
          ApplyAdapter(env, CATEGORY_CONFIG[t.category].adapter, t.response.data[j]) = Thrown

\* C13: when a category load fails, the promise chain ends in its catch
\* handler, the cache is left exactly as it was, and the grid is emptied:
\* no card of the response is shown.
C13_FailedLoadEmptiesGrid ==
  [][\A i \in 1..Len(tasks) :
       (tasks[i].step = "fetching" /\ tasks'[i].step # "fetching" /\ LoadFails(tasks'[i]))
         => /\ tasks'[i].step = "failed"
            /\ dataCache' = dataCache
            /\ container'.cards = <<>>]_vars

\* a load failed on the second record of its response, after the first was
\* normalised, while the cache held an earlier list for the key
C13_Witness ==
  \E i \in 1..Len(tasks) :
    /\ tasks[i].step = "failed"
    /\ tasks[i].response.kind = "ok"
    /\ Len(tasks[i].response.data) = 2
    /\ ApplyAdapter(env, CATEGORY_CONFIG[tasks[i].category].adapter,
                    tasks[i].response.data[1]) # Thrown
    /\ dataCache[tasks[i].cacheKey].has
    /\ dataCache[tasks[i].cacheKey].data # <<>>
\* the load of a source fails: the fetch rejects, the response is not ok (or
\* is no array), or the adapter throws on one of the records
SourceFails(adapter, response) ==
  \/ response.kind # "ok"
  \/ \E j \in 1..Len(response.data) : ApplyAdapter(env, adapter, response.data[j]) = Thrown

\* the normalised records of a source that did not fail
SourceItems(adapter, response) ==
  IF SourceFails(adapter, response) THEN {}
  ELSE {ApplyAdapter(env, adapter, response.data[j]) : j \in 1..Len(response.data)}

\* the items of the categories refreshBookmarks loaded without failure
LiveItems(responses) ==
  UNION {SourceItems(CATEGORY_CONFIG[c].adapter, responses[c]) : c \in DOMAIN responses}

\* the items of the data files loadAllContent loaded without failure
IndexedItems(responses) ==
  UNION {SourceItems(SearchDataFiles[i].adapter, responses[i]) : i \in DOMAIN responses}

\* C14: in refreshBookmarks and in loadAllContent a source that fails
\* contributes nothing and the operation still completes with the items of
\* the other sources: a bookmark whose id only live items different from it
\* carry is replaced by one of them, every returned entry is the bookmark or
\* a live item of its id, and the search index holds, for each live item
\* with an id, an item of its type and id, and nothing else.
C14_SourcesFailIndependently ==
  /\ IsCall("refreshBookmarks") =>
       LET bs == call.args[1]
           live == LiveItems(call.args[2])
       IN /\ Len(ret.returned) = Len(bs)
          /\ \A k \in 1..Len(bs) :
               LET fresh == {it \in live : it.id = bs[k].id}
               IN /\ ret.returned[k] \in fresh \cup {bs[k]}
                  /\ (fresh # {} /\ \A it \in fresh : JsonItem(it) # JsonItem(bs[k]))
                       => ret.returned[k] \in fresh
  /\ IsCall("loadAllContent") =>
       LET live == IndexedItems(call.args[1])
       IN /\ \A it \in live :
               Truthy(it.id) =>
                 \E k \in 1..Len(allItems) : DedupeKey(allItems[k]) = DedupeKey(it)
          /\ \A k \in 1..Len(allItems) : allItems[k] \in live

\* the movies were refreshed although a record of the TV file failed to
\* normalise: the stale movie bookmark was replaced, the show was kept
C14_Witness ==
  /\ IsCall("refreshBookmarks")
  /\ call.args[2]["tv-shows"].kind = "ok"
  /\ SourceFails("normalizeTVShow", call.args[2]["tv-shows"])
  /\ ~SourceFails("normalizeMovie", call.args[2]["movies"])
  /\ Len(call.args[1]) = 2
  /\ ret.hasUpdates
  /\ \E k \in 1..2 : ret.returned[k] = call.args[1][k]
\* the step is a call of bookmarkManager.toggle
Toggles == toggled' # toggled

\* the contract of one toggle: append and true, or remove the one entry of
\* that id and false
ToggleContract ==
  Toggles =>
    LET it == call'.args[1]
        old == localStorage
        new == localStorage'
    IN IF \A i \in 1..Len(old) : old[i].id # it.id
       THEN new = Append(old, JsonItem(it)) /\ ret' = Bool(TRUE)
       ELSE /\ ret' = Bool(FALSE)
            /\ \E k \in 1..Len(old) :
                 /\ old[k].id = it.id
                 /\ new = SubSeq(old, 1, k - 1) \o SubSeq(old, k + 1, Len(old))

NoSharedId ==
  \A i, j \in 1..Len(localStorage) : i # j => localStorage[i].id # localStorage[j].id

BookmarkedIffOdd ==
  \A it \in ToggleItems : isBookmarked(localStorage, it.id) <=> it.id \in toggled

Refreshes ==
  /\ call'.fn = "refreshBookmarks"
  /\ \E i \in 1..Len(tasks) : Passes(i, "refreshing", "refreshed")

\* the live items with the id of the bookmark b
FreshOf(b, responses) == {it \in LiveItems(responses) : it.id = b.id}

Differs(it, b) == JsonItem(it) # JsonItem(b)

C17_AllFetchesFail ==
  /\ IsCall("refreshBookmarks")
  /\ call.args[1] # <<>>
  /\ \A c \in DOMAIN call.args[2] : call.args[2][c].kind # "ok"
\* the last step called Router.navigate with a path that is no configured
\* route
NavigatedUnknown ==
  /\ navigated \notin {NotLoaded, NoPath}
  /\ navigated \notin DOMAIN Routes(build)

\* the movies route was executed, or waits for the scroll timer
MoviesExecuted ==
  \/ /\ scrollTimers # <<>>
     /\ scrollTimers[Len(scrollTimers)] = defaultRoute
  \/ /\ page = [activeLink |-> "movies", categoryText |-> "MOVIES",
                 title |-> "MOVIES - MIDLOOP"]
     /\ tasks # <<>>
     /\ tasks[Len(tasks)].cacheKey = "movies"

\* C15: for every path that is not a configured route name,
\* Router.navigate(path) executes the movies route (its handler runs, the
\* active link and the titles are those of movies) and does not fail; the
\* initial load of a page URL whose route segment is no configured route
\* goes through the same call.
C15_UnknownPathShowsMovies ==
  NavigatedUnknown => ~uncaught /\ MoviesExecuted
\* the step runs displayResults
DisplayRuns == Len(displayCalls') > Len(displayCalls)

\* displayResults has run for the input event k
Displayed(k) == \E i \in 1..Len(displayCalls) : displayCalls[i].id = k

\* displayResults runs for the latest input event, with its query, and not
\* before SearchDebounce ms have passed since it
RunsForLatestInput ==
  DisplayRuns =>
    LET c == displayCalls'[Len(displayCalls')]
        latest == inputEvents[Len(inputEvents)]
    IN /\ c.id = Len(inputEvents)
       /\ c.query = latest.query
       /\ clock >= latest.at + SearchDebounce

\* an input event followed by another within SearchDebounce ms is never
\* displayed, and no input event is displayed twice
OneCallPerBurst ==
  /\ \A k \in 1..(Len(inputEvents) - 1) :
       inputEvents[k + 1].at - inputEvents[k].at < SearchDebounce => ~Displayed(k)
  /\ \A i, j \in 1..Len(displayCalls) :
       displayCalls[i].id = displayCalls[j].id => i = j

\* C18: displayResults runs only once 300 ms have passed with no further
\* input since the latest input event, and with the query of that event; of
\* a burst of input events each less than 300 ms after the one before only
\* the last is displayed, once, and it is displayed unless a further input
\* event arrives first; no call uses a superseded query.
C18_Debounced ==
  /\ [][RunsForLatestInput]_vars
  /\ []OneCallPerBurst
  /\ \A k \in 1..MaxInputs :
       (Len(inputEvents) = k) ~> (Len(inputEvents) > k \/ Displayed(k))

\* two input events with different queries less than 300 ms apart, one
\* displayResults call for the second, then a third event and its call
C18_Witness ==
  /\ Len(inputEvents) = 3
  /\ inputEvents[2].at - inputEvents[1].at < SearchDebounce
  /\ inputEvents[1].query # inputEvents[2].query
  /\ Len(displayCalls) = 2
  /\ displayCalls[1].query = inputEvents[2].query
  /\ displayCalls[2].query = inputEvents[3].query
\* the labels of the rows, in order
Labels(rows) == [i \in 1..Len(rows) |-> rows[i].label]

\* the labels the movie renderer is to return for the metadata
MovieLabels(meta) ==
     (IF Truthy(meta.runtime) THEN <<"Runtime">> ELSE <<>>)
  \o (IF Truthy(meta.budget) /\ GreaterThanZero(meta.budget) THEN <<"Budget">> ELSE <<>>)
  \o (IF Truthy(meta.revenue) /\ GreaterThanZero(meta.revenue) THEN <<"Revenue">> ELSE <<>>)
  \o (IF Truthy(meta.originalLanguage) /\ meta.originalLanguage # Str(<<"e", "n">>)
      THEN <<"Original Language">> ELSE <<>>)
  \o (IF Truthy(meta.imdbId) THEN <<"IMDb">> ELSE <<>>)

\* the modal rendered a movie
MovieRendered == pc = "modal" /\ ItemType = "movie"

\* C19: ModalRenderers.movie.render returns rows whose labels are, in this
\* order, Runtime iff runtime is non-zero, Budget iff budget > 0, Revenue iff
\* revenue > 0, Original Language iff originalLanguage is present and not
\* 'en', IMDb iff imdbId is present; for metadata holding only type it returns
\* the empty list.
C19_MovieRows ==
  MovieRendered =>
    /\ ~details.threw
    /\ Labels(details.rows) = MovieLabels(item.metadata.props)
    /\ (\A f \in DOMAIN item.metadata.props \ {"type"} : item.metadata.props[f] = Undef)
         => details.rows = <<>>
\* the distance of two integers
Distance(a, b) == IF a >= b THEN a - b ELSE b - a

\* C20: for every integer amount currencyDisplay picks the unit by
\* threshold: "N/A" for 0, null or NaN; millions with one decimal and suffix
\* M from 1,000,000; whole thousands with suffix K from 1,000 up to but not
\* including 1,000,000, the displayed number of thousands being below 1000;
\* the plain dollar amount between 0 and 1,000.
C20_CurrencyUnitByThreshold ==
  IsCall("currencyDisplay") =>
    LET amount == call.args[1]
    IN /\ amount \in {Num(0), Null, NaN} => ret = Str(<<"N/A">>)
       /\ (IsNumber(amount) /\ amount.n >= 1000000) =>
            \E tenths \in 10..99 :
               /\ Distance(10 * amount.n, 1000000 * tenths) <= 500000
               /\ ret = Str(<<"$", ToString(tenths \div 10), ".", ToString(tenths % 10), "M">>)
       /\ (IsNumber(amount) /\ amount.n >= 1000 /\ amount.n < 1000000) =>
            \E thousands \in 1..999 :
               /\ Distance(amount.n, 1000 * thousands) <= 500
               /\ ret = Str(<<"$", ToString(thousands), "K">>)
       /\ (IsNumber(amount) /\ amount.n > 0 /\ amount.n < 1000) =>
            ret = Str(<<"$", ToString(amount.n)>>)
\* C21: currencyDisplay(500000) returns "$0.5M", as the formatter test
\* 'Half million' asserts.
C21_HalfMillion ==
  (IsCall("currencyDisplay") /\ call.args[1] = Num(500000)) =>
    ret = Str(<<"$", "0", ".", "5", "M">>)
\* the item the adapter of the type builds from the record
AdapterItem(e, type, r) ==
  CASE type = "movie" -> normalizeMovie(r)
    [] type = "tv-show" -> normalizeTVShow(e, r)
    [] type = "game" -> normalizeGame(r)

\* C22: the metadata an adapter produces holds the field type with the
\* adapter's own tag and no field outside the required and optional lists of
\* that type's schema, validateMetadata returns isValid = true without errors
\* and warnings for it, and the item returned is the item the adapter built,
\* whatever the validation says.
C22_SchemasCoverAdapters ==
  AdapterReturned =>
    LET schema == MetadataSchemas[call.fn]
    IN /\ "type" \in OwnKeys(item.metadata)
       /\ item.metadata.props.type = Str(<<call.fn>>)
       /\ schema.type = call.fn
       /\ OwnKeys(item.metadata) \subseteq Range(schema.required) \cup Range(schema.optional)
       /\ validation = ValidationResult(TRUE, <<>>, {})
       /\ item = AdapterItem(env, call.fn, raw)

\* a show whose record names its creators was adapted and validated
C22_Witness ==
  /\ AdapterReturned
  /\ call.fn = "tv-show"
  /\ raw.created_by # Undef
  /\ validation.isValid
  /\ validation.warnings = {}
\* the items the fetch of a loaded task delivered
LoadedItems(t) == NormalizeData(env, CATEGORY_CONFIG[t.category].adapter, t.response.data)

\* two categories were navigated to one after the other and both fetches
\* have resolved
BothLoaded ==
  /\ Len(tasks) = 2
  /\ tasks[1].step = "loaded"
  /\ tasks[2].step = "loaded"
  /\ tasks[1].cacheKey # tasks[2].cacheKey

\* C23: after a navigation to category A and then to category B, once both
\* fetches have resolved, in either order, the grid and currentMoviesArray
\* hold B's items; A's response is in A's cache entry and B's response in
\* B's.
C23_LateResponseNotDisplayed ==
  BothLoaded =>
    /\ currentMoviesArray = filterItemsByDate(env, LoadedItems(tasks[2]), currentDateFilter)
    /\ container.cards = currentMoviesArray
    /\ dataCache_get(dataCache, tasks[1].cacheKey) = LoadedItems(tasks[1])
    /\ dataCache_get(dataCache, tasks[2].cacheKey) = LoadedItems(tasks[2])
\* C24: no bookmark update is lost to a concurrent refresh: when a
\* refreshBookmarks call started by loadContent('bookmarks') completes, an
\* item is in local storage exactly when the toggles so far, those made
\* while the refresh was fetching included, leave it bookmarked.
C24_NoLostToggle ==
  IsCall("refreshBookmarks") =>
    \A it \in BookmarkItems : isBookmarked(localStorage, it.id) <=> it.id \in toggled
\* the step is the hashchange listener of the hash build handling the event
HashChangeHandled == build = "hash" /\ hashchange /\ ~hashchange'

\* the pathname of the page is not the name of a route
PathnameIsNoRoute ==
  location.pathname = <<>> \/ getCurrentRoute(build, location) \notin DOMAIN Routes(build)

\* C25: in the hash build with a pathname that is no route name, after
\* Router.navigate(r) for a valid route r has set the hash to #/r, the
\* and executed r, the handling of the hashchange event leaves r the route
\* executed last (or to be executed by the scroll timer): active link,
\* titles and content of r.
C25_HashChangeKeepsRoute ==
  [][(HashChangeHandled /\ PathnameIsNoRoute) =>
       \A r \in DOMAIN Routes(build) :
         (location.hash = "#/" \o r /\ page.activeLink = r /\ scrollTimers = <<>>) =>
           IF scrollTimers' # scrollTimers
           THEN scrollTimers'[Len(scrollTimers')] = r
           ELSE /\ ~uncaught'
                /\ page' = [activeLink |-> r, categoryText |-> getRoute(build, r).title,
                            title |-> getRoute(build, r).title \o " - MIDLOOP"]
                /\ tasks'[Len(tasks')].category = Routes(build)[r].category]_vars
\* metadata.type of an item
TypeOf(it) == it.metadata.props.type

\* a toggle leaves every stored bookmark of another type in the store
OtherTypesKept ==
  Toggles =>
    \A k \in 1..Len(localStorage) :
      TypeOf(localStorage[k]) # TypeOf(call'.args[1]) =>
        \E j \in 1..Len(localStorage') : localStorage'[j] = localStorage[k]

\* an item reads as bookmarked only if the store holds an entry of its id
\* and its type
BookmarkedMeansStored ==
  \A y \in ToggleItems :
    isBookmarked(localStorage, y.id) =>
      \E k \in 1..Len(localStorage) :
        localStorage[k].id = y.id /\ TypeOf(localStorage[k]) = TypeOf(y)

\* C26: bookmarks of different content types do not interfere, also when
\* two items of different metadata.type carry the same id: toggling X
\* neither adds nor removes a stored Y of another type, and isBookmarked
\* is true for Y only if Y itself is stored.
C26_TypesDoNotInterfere == [][OtherTypesKept]_vars /\ []BookmarkedMeansStored
\* C27: refreshBookmarks never turns a bookmark into a different item:
\* every entry it returns has the metadata.type of the bookmark at that
\* position of its input, also when the fetched movies, TV shows and games
\* hold items of equal ids.
C27_RefreshKeepsType ==
  IsCall("refreshBookmarks") =>
    \A k \in 1..Len(call.args[1]) :
      TypeOf(ret.returned[k]) = TypeOf(call.args[1][k])
\* the step is a click on a date filter button that changes the filter
FilterChanges == currentDateFilter' # currentDateFilter /\ tasks' = tasks

\* C28: on the bookmarks view (Router.getCurrentRoute() = 'bookmarks')
\* every date-filter change displays stored bookmarks only, so that an item
\* un-bookmarked through its card is not displayed again.
C28_FilterShowsBookmarksOnly ==
  [][(FilterChanges /\ getCurrentRoute(build, location) = "bookmarks") =>
       \A k \in 1..Len(container'.cards) :
         isBookmarked(localStorage', container'.cards[k].id)]_vars
\* C29: whenever previous or next is triggered in the open modal,
\* showItemDetails is called with an item of currentMoviesArray and its
\* index, which lies in [0, length - 1], and shows it; also while the modal
\* fades out after the last bookmark was removed.
C29_PrevNextInRange ==
  (pc = "returned" /\ call.fn \in {"prev", "next"}) =>
    /\ call.args[2].n \in 0..(Len(currentMoviesArray) - 1)
    /\ call.args[1] = At(currentMoviesArray, call.args[2].n)
    /\ call.args[1] # Undef
    /\ ret # Thrown
    /\ modal.item = call.args[1]
    /\ modal.currentIndex = call.args[2].n
\* C30: a click on a search result opens the modal for the item the row
\* displays, same id and same metadata.type, whatever dedupeItems left in
\* allItems.
C30_ResultOpensItsItem ==
  (pc = "returned" /\ call.fn = "searchResultClick") =>
    /\ modal.display = "flex"
    /\ modal.item.id = call.args[1].id
    /\ TypeOf(modal.item) = TypeOf(call.args[1])
====
